---------------------------- MODULE Spec2Model ----------------------------
(***************************************************************************)
(* State-machine model of the SolarAssistant dashboard server (app.js):    *)
(* the battery alert engine (checkBatteryAlerts), the automatic charger    *)
(* control loop (controlBatteryCharger), the manual charger trigger, the   *)
(* settings endpoint and the persistence of daily stats / charger state.   *)
(*                                                                         *)
(* Node.js runs one handler at a time until it reaches an await on real    *)
(* I/O (the IFTTT fetch, the SendGrid send).  `cur` is the handler that    *)
(* holds the thread; while it is set only that handler steps.  When a      *)
(* handler blocks, `cur` is released and any other event (a new MQTT       *)
(* message, an HTTP request, a timer, an I/O completion) may run.          *)
(***************************************************************************)
EXTENDS Integers, Sequences, FiniteSets, TLC

(***************************************************************************)
(* Bounds of the model                                                     *)
(***************************************************************************)
MaxInFlight == 2        \* SOC handlers that may be suspended at the same time
MaxSamples  == 2        \* freely chosen SOC samples per behaviour (Spec)
MaxFeed     == 3        \* length of a scripted sequence of SOC samples
MaxTicks    == 2        \* clock readings: now = TickLen * (1 .. MaxTicks)
MaxDays     == 1        \* calendar dates 0 .. MaxDays
MaxRestarts == 1        \* process restarts per behaviour
MaxSummaries == 1       \* daily summaries dispatched per behaviour
MaxLate     == 1        \* seconds a due timer waits for the thread

(***************************************************************************)
(* Program constants                                                       *)
(***************************************************************************)
\* The clock of the model counts seconds; the program counts milliseconds.
Cooldown         == 300      \* 300000 ms between charger actions
HistoryCap       == 50       \* alertHistory keeps the last 50 alerts
DefaultAlertLow  == 50
DefaultAlertHigh == 80
DefaultCcLow     == 45
DefaultCcHigh    == 85
DefaultMaxTemp   == 110
ArchiveInterval  == 60       \* ARCHIVE_INTERVAL, 60000 ms
DataRetentionDays == 365
SeriesCap        == 10000    \* points kept per archived series
PeakMinutes      == 30       \* discharge minutes before the peak-hours alert
DefaultPeakMinutes == 30     \* alertSettings.peakDischargeAlert.durationMinutes
DischargeBelow   == 50       \* discharging: battery power < -50 W
KeepCount        == 30       \* backup.js: cleanOldBackups(30)

\* Encodings of JavaScript values that are not numbers.
Null    == 0 - 1            \* null in a numeric field
NaN     == 0 - 2            \* result of parseFloat on a non-number
Garbage == 0 - 3            \* a payload that is not numeric text
Absent  == 0 - 4            \* undefined: no cache entry for the topic

TickLen == Cooldown            \* the clock is read in steps of one cooldown

\* cutoffTime of pruneOldData is Date.now() - Retention.
Retention == DataRetentionDays * 24 * 60 * 60

\* The topics whose messages are modelled.  cachedData is kept for the
\* topics that the functions of a specification read back: Topics, and in
\* the specification of the battery runtime also RuntimeTopics.  The
\* archive keeps the series of PvTopic and LoadTopic (every
\* tracked topic has a series and a watermark of its own).
SocTopic        == "solar_assistant/total/battery_state_of_charge/state"
TempTopic       == "solar_assistant/total/battery_temperature/state"
PvTopic         == "solar_assistant/inverter_1/pv_power/state"
LoadTopic       == "solar_assistant/inverter_1/load_power/state"
BatteryTopic    == "solar_assistant/total/battery_power/state"
PvEnergyTopic   == "solar_assistant/total/pv_energy/state"
LoadEnergyTopic == "solar_assistant/total/load_energy/state"
BatteryInTopic  == "solar_assistant/total/battery_energy_in/state"
BatteryOutTopic == "solar_assistant/total/battery_energy_out/state"
VoltageTopic    == "solar_assistant/inverter_1/battery_voltage/state"
OtherTopic      == "solar_assistant/inverter_1/device_mode/state"
TrackedTopics   == {SocTopic, TempTopic, PvTopic, LoadTopic, BatteryTopic}
Archived        == {PvTopic, LoadTopic}
DataTopics      == {PvTopic, LoadTopic, PvEnergyTopic, LoadEnergyTopic, OtherTopic}
Topics          == {TempTopic, BatteryTopic} \cup DataTopics
RuntimeTopics   == {SocTopic, VoltageTopic}
EnergyTopics    == {PvEnergyTopic, LoadEnergyTopic, BatteryInTopic,
                    BatteryOutTopic}

\* SOC payloads: at the charger thresholds (45, 85), at the alert thresholds
\* (50, 80), and one that is not a number.
SocValues    == {45, 50, 80, 85}
SocPayloads  == {45, 80, 85, Garbage}
TempPayloads == {DefaultMaxTemp, DefaultMaxTemp + 1, Garbage}
Outcomes     == {"ok", "notok", "throw"}   \* of a fetch: response.ok, !response.ok, rejected
ManualActions == {"on", "off", "bogus"}

VARIABLES
    now,            \* Date.now()
    today,          \* new Date().toDateString()
    env,            \* process.env: which API keys the environment provides
    settingsFile,   \* alert_settings.json
    statsFile,      \* daily_stats.json
    alertSettings,
    alertState,
    chargerState,
    alertHistory,
    cachedData,
    statsDate,      \* dailyStats.date
    handlers,       \* suspended / running SOC handlers
    manual,         \* the POST /settings/charger/test request in progress
    cur,            \* handler holding the thread: 0 none, h in 1..MaxInFlight
    delivered,      \* SOC samples delivered so far
    feed,           \* a scripted sequence of SOC payloads (empty: free choice)
    restarts,
    io,             \* what the last step did towards the outside world
    alertLog,       \* battery alerts emitted in this process run, oldest first
    lastFlip,       \* the last isOn change committed by the control loop:
                    \* the lastActionTime it recorded and the clock at commit
    mustStayOn,     \* a restart found isOn = true persisted and no OFF since
    historicalData, \* the archive: a map of series, or what JSON.parse gave
    lastArchivedTime, \* per topic: Date.now() of its last archived point
    historyFile,    \* historical_data.json
    dailyStats,     \* the energy baselines and the peak power of statsDate
    peakDischargeState,
    peakPending,    \* peak-discharge alerts waiting for sendEmailAlert
    summaryPending, \* daily summaries waiting for SendGrid
    summaries,      \* calls of sendDailySummaryReport so far
    disk,           \* the backups directory and the files next to app.js
                    \* that only backup.js and restore.js touch
    summaryTimer,   \* the setTimeout of scheduleNextDailySummary: the due
                    \* times armed, the callbacks awaiting their send, and
                    \* the calendar day of the latest firing
    horizon         \* the last clock reading a behaviour explores

vars == <<now, today, env, settingsFile, statsFile, alertSettings, alertState,
          chargerState, alertHistory, cachedData, statsDate, handlers, manual,
          cur, delivered, feed, restarts, io, alertLog, lastFlip, mustStayOn,
          historicalData, lastArchivedTime, historyFile, dailyStats,
          peakDischargeState, peakPending, summaryPending, summaries,
          disk, summaryTimer, horizon>>

\* The state of the archive, the daily statistics and the two other writers
\* of alertHistory.
archive == <<historicalData, lastArchivedTime, historyFile>>
others  == <<peakDischargeState, peakPending, summaryPending, summaries,
            horizon>>

Slots == 1 .. MaxInFlight

(***************************************************************************)
(* Module-level initial values of app.js                                   *)
(***************************************************************************)
InitAlertSettings(e) ==
    [ enabled        |-> TRUE,
      sendgridApiKey |-> e.sendgrid,
      lowThreshold   |-> DefaultAlertLow,
      highThreshold  |-> DefaultAlertHigh,
      chargerControl |-> [ enabled         |-> FALSE,
                           iftttWebhookKey |-> e.ifttt,
                           lowThreshold    |-> DefaultCcLow,
                           highThreshold   |-> DefaultCcHigh,
                           maxTemp         |-> DefaultMaxTemp ],
      peakDischargeAlert |-> [ enabled         |-> TRUE,
                               durationMinutes |-> DefaultPeakMinutes ] ]

\* lastAlertTime is written and never read; it is not kept.
InitAlertState == [ belowThreshold |-> FALSE, lastAlertType |-> "null" ]

InitChargerState ==
    [ isOn |-> FALSE, lastAction |-> "null", lastActionTime |-> Null,
      lastSOC |-> Null, lastActionReason |-> "none" ]

NoFile == [ exists |-> FALSE ]

\* The files that backup.js copies and restore.js copies back, in the order
\* of DATA_FILES, SENSITIVE_FILES, SSL_FILES.  The first three are the
\* files of app.js (settingsFile, statsFile, historyFile); disk.files holds
\* the others; a file is a record with the field exists.
BackupFiles ==
    << "alert_settings.json", "daily_stats.json", "data_history.json",
       "package.json", ".env", "ssl/server.crt", "ssl/server.conf" >>

OtherFiles == {"package.json", ".env", "ssl/server.crt", "ssl/server.conf"}

\* An installation that has made no backup: package.json and .env exist,
\* there are no SSL files and the backups directory is empty.  disk.dir
\* lists the backups directory; an entry is a folder with the prefix and
\* the time stamp of its name, its mtime, the files copied into it and
\* whether it holds backup_info.json.
NoBackups ==
    [ files |-> [ f \in OtherFiles |->
                    IF f \in {"package.json", ".env"}
                    THEN [ exists |-> TRUE, version |-> 1 ] ELSE NoFile ],
      dir   |-> << >> ]

\* historicalData after loadHistoricalData found no file: an empty series for
\* every tracked topic.  isMap is FALSE when JSON.parse gave a value that has
\* no properties (null); a point is { timestamp, value }, the ISO timestamp
\* giving the instant (timestamp) and the calendar date (day).
InitHistoricalData == [ isMap |-> TRUE, series |-> [ k \in Archived |-> << >> ] ]

\* const lastArchivedTime = {}: lastArchivedTime[topic] || 0 reads 0.
InitLastArchivedTime == [ k \in Archived |-> 0 ]

InitDailyStats ==
    [ pvEnergyStart |-> Null, loadEnergyStart |-> Null,
      batteryEnergyInStart |-> Null, batteryEnergyOutStart |-> Null,
      peakPower |-> 0, peakPowerHourly |-> [ hour \in 0 .. 23 |-> Absent ] ]

InitPeakDischargeState ==
    [ isDischarging |-> FALSE, dischargeStartTime |-> Null,
      alertSent |-> FALSE, lastAlertTime |-> Null ]

\* cachedData[topic] of a topic that has had no message.
NoEntry == [ value |-> Absent, timestamp |-> Null ]

\* Mutant: only the samples that the archive takes reach the cache.
Cached_WhenArchived(cache, topic, raw, t) ==
    IF raw = Garbage \/ t - lastArchivedTime[topic] < ArchiveInterval THEN cache
    ELSE [ cache EXCEPT ![topic] = [ value |-> raw, timestamp |-> t ] ]

\* cachedData[topic] = { value, timestamp, raw }, for the topics that are
\* kept.
Cached(cache, topic, raw, t) ==
    IF topic \notin DOMAIN cache THEN cache
    ELSE [ cache EXCEPT ![topic] = [ value |-> raw, timestamp |-> t ] ]

IdleHandler == [ pc |-> "idle", soc |-> NaN, t |-> Null, ev |-> "none" ]
IdleManual  == [ pc |-> "idle", action |-> "none" ]

\* io of a step that calls nothing outside: op names the operation that ran,
\* soc / arg its input, trigger the IFTTT event sent, skip why the control loop
\* returned without sending, mail the subject given to sendEmailAlert, sent
\* whether SendGrid was called, commit whether chargerState was assigned,
\* result what a dashboard function returned, at the timestamp it names.
Quiet == [ op |-> "none", soc |-> NaN, arg |-> "none", trigger |-> "none",
           skip |-> "none", mail |-> "none", sent |-> FALSE, commit |-> FALSE,
           result |-> Null, at |-> Null ]

NoFlip == [ at |-> Null, wall |-> Null, to |-> FALSE ]

(***************************************************************************)
(* Pure helpers                                                            *)
(***************************************************************************)
ParseFloat(raw) == IF raw \in {Garbage, Absent, NaN} THEN NaN ELSE raw

IsNaN(x) == x = NaN

\* JavaScript truthiness of a timestamp field (null and 0 are falsy).
Truthy(t) == t # Null /\ t # 0

\* An alertHistory entry: its type, the SOC of a battery alert (NaN for the
\* other types) and the instant of new Date().toISOString() at the unshift.
Entry(type, value, t) == [ type |-> type, value |-> value, at |-> t ]

\* Mutant: the entry at the front is the one removed.
PushHistory_Shift(hist, entry) ==
    LET h == <<entry>> \o hist
    IN  IF Len(h) > HistoryCap THEN Tail(h) ELSE h

\* alertHistory.unshift(entry); if (alertHistory.length > 50) alertHistory.pop()
PushHistory(hist, entry) ==
    LET h == <<entry>> \o hist
    IN  IF Len(h) > HistoryCap THEN SubSeq(h, 1, Len(h) - 1) ELSE h

\* sendEmailAlert hands the message to SendGrid only past this guard.
MailGoesOut(s) == s.enabled /\ s.sendgridApiKey

\* Mutant: the webhook key is not checked.
ChargerControlReady_NoKeyCheck(s) == s.chargerControl.enabled

\* First line of controlBatteryCharger and the two checks of the manual trigger.
ChargerControlReady(s) ==
    s.chargerControl.enabled /\ s.chargerControl.iftttWebhookKey

\* Mutant: the return sits inside the if (chargerState.isOn) that logs.
TempVeto_OnlyWhenOn(batteryTemp, maxTemp) ==
    ~IsNaN(batteryTemp) /\ batteryTemp > maxTemp /\ chargerState.isOn

\* Mutant: a missing or unparseable temperature vetoes as well.
TempVeto_UnlessKnownCool(batteryTemp, maxTemp) ==
    IsNaN(batteryTemp) \/ batteryTemp > maxTemp

\* Safety interlock: a numeric cached temperature above maxTemp.
TempVeto(batteryTemp, maxTemp) == ~IsNaN(batteryTemp) /\ batteryTemp > maxTemp

\* Minimum 5 minutes between actions.
InCooldown(t, lastActionTime) ==
    Truthy(lastActionTime) /\ (t - lastActionTime) < Cooldown

\* Mutant: the ON branch does not look at the current state.
ShouldTurnOn_NoStateCheck(socValue, isOn, low) == socValue <= low

ShouldTurnOn(socValue, isOn, low)   == socValue <= low /\ ~isOn
ShouldTurnOff(socValue, isOn, high) == socValue >= high /\ isOn

\* Mutant: the master switch is not looked at.
AlertsOff_SwitchIgnored(s, socValue) == IsNaN(socValue)

\* checkBatteryAlerts returns at once: master switch off, or not a number.
AlertsOff(s, socValue) == ~s.enabled \/ IsNaN(socValue)

\* Mutant: a low sample alerts whether or not the state is already below.
DroppedBelow_NoStateCheck(below, socValue, low) == socValue < low

\* Mutant: recovery is tested against the low threshold.
RecoveredAbove_LowThreshold(below, socValue, high) ==
    below /\ socValue > alertSettings.lowThreshold

\* checkBatteryAlerts: the two threshold tests.
DroppedBelow(below, socValue, low)     == ~below /\ socValue < low
RecoveredAbove(below, socValue, high)  == below /\ socValue > high

\* What controlBatteryCharger does with a sample: the event it sends, or the
\* reason it returns without sending.
ChargerDecision(s, cs, temp, socValue, t) ==
    IF ~ChargerControlReady(s)                            THEN "disabled"
    ELSE IF IsNaN(socValue)                               THEN "nan"
    ELSE IF TempVeto(temp, s.chargerControl.maxTemp)      THEN "temp"
    ELSE IF InCooldown(t, cs.lastActionTime)              THEN "cooldown"
    ELSE IF ShouldTurnOn(socValue, cs.isOn, s.chargerControl.lowThreshold)
                                                          THEN "battery_low"
    ELSE IF ShouldTurnOff(socValue, cs.isOn, s.chargerControl.highThreshold)
                                                          THEN "battery_charged"
    ELSE "idle"

Events == {"battery_low", "battery_charged"}

\* Mutant: every response counts as a success.
ResponseOk_AnyResponse(outcome) == outcome # "throw"

\* if (response.ok)
ResponseOk(outcome) == outcome = "ok"

\* saveDailyStats: { ...dailyStats, chargerState }
SavedStats(date, ds, cs) ==
    [ exists |-> TRUE, date |-> date, dailyStats |-> ds, chargerState |-> cs ]

\* loadDailyStats: dailyStats = savedStats when the file is of today.
LoadedDailyStats(file, date) ==
    IF file.exists /\ file.date = date THEN file.dailyStats ELSE InitDailyStats

\* saveAlertSettings writes the settings without the API keys.
SavedSettings(s) ==
    [ exists |-> TRUE, enabled |-> s.enabled,
      lowThreshold |-> s.lowThreshold, highThreshold |-> s.highThreshold,
      cc |-> [ enabled       |-> s.chargerControl.enabled,
               lowThreshold  |-> s.chargerControl.lowThreshold,
               highThreshold |-> s.chargerControl.highThreshold,
               maxTemp       |-> s.chargerControl.maxTemp ],
      peak |-> s.peakDischargeAlert ]

\* loadAlertSettings: defaults merged with the file, keys from the environment.
LoadedSettings(file, e) ==
    IF ~file.exists THEN InitAlertSettings(e)
    ELSE [ enabled        |-> file.enabled,
           sendgridApiKey |-> e.sendgrid,
           lowThreshold   |-> file.lowThreshold,
           highThreshold  |-> file.highThreshold,
           chargerControl |-> [ enabled         |-> file.cc.enabled,
                                iftttWebhookKey |-> e.ifttt,
                                lowThreshold    |-> file.cc.lowThreshold,
                                highThreshold   |-> file.cc.highThreshold,
                                maxTemp         |-> file.cc.maxTemp ],
           peakDischargeAlert |-> file.peak ]

FreeSlots == { h \in Slots : handlers[h].pc = "idle" }

\* The handlers of SOC messages that have not reached their end.
Unfinished == Slots \ FreeSlots
FirstFree == CHOOSE h \in FreeSlots : \A g \in FreeSlots : h <= g

Subjects ==
    [ low         |-> "Low Battery Alert",
      recovered   |-> "Battery Recovered",
      activated   |-> "Battery Charger Activated",
      deactivated |-> "Battery Charger Deactivated",
      failed      |-> "Battery Charger Control Failed",
      error       |-> "Battery Charger Control Error",
      testOn      |-> "Test: Battery Charger ON Command Sent",
      testOff     |-> "Test: Battery Charger OFF Command Sent",
      peak        |-> "Battery Discharging During Peak Hours" ]

\* io of a step of operation op that calls nothing outside.
Ran(op, socValue, arg) == [ Quiet EXCEPT !.op = op, !.soc = socValue, !.arg = arg ]

\* io of a step of operation op that calls sendEmailAlert(subject).
Mail(op, socValue, arg, subject) ==
    [ Ran(op, socValue, arg) EXCEPT !.mail = subject,
                                    !.sent = MailGoesOut(alertSettings) ]

\* process.env: the .env file provides both API keys or is missing.
Environments == { [ sendgrid |-> TRUE, ifttt |-> TRUE ],
                  [ sendgrid |-> FALSE, ifttt |-> FALSE ] }

(***************************************************************************)
(* The archive (historicalData) and the daily statistics                   *)
(***************************************************************************)
\* if (now - lastArchived < ARCHIVE_INTERVAL) return
Throttled(t, lastArchived) == t - lastArchived < ArchiveInterval

\* Mutant: the new point is put in front of the series.
Pushed_InFront(series, point) == <<point>> \o series

\* historicalData[topic].push(point)
Pushed(series, point) == Append(series, point)

\* Mutant: the newest point is dropped when the series is full.
Capped_DropsNewest(series) ==
    IF Len(series) > SeriesCap THEN SubSeq(series, 1, SeriesCap) ELSE series

\* if (historicalData[topic].length > 10000) historicalData[topic].shift()
Capped(series) == IF Len(series) > SeriesCap THEN Tail(series) ELSE series

\* addHistoricalDataPoint reads a property of historicalData[topic]: with a
\* store that is not an object this throws for every tracked topic (nothing
\* was archived, so the call is never throttled).
ArchiveThrows(hd, topic) == topic \in TrackedTopics /\ ~hd.isMap

\* The point that addHistoricalDataPoint appends for a message, if any.
Archives(last, topic, raw, t) ==
    /\ topic \in Archived
    /\ ~Throttled(t, last[topic])
    /\ ~IsNaN(ParseFloat(raw))

\* Mutant: nothing is archived while a handler has not finished.
AddHistoricalDataPoint_WhenIdle(hd, last, topic, raw, t, day) ==
    IF Archives(last, topic, raw, t) /\ Unfinished = {}
    THEN [ hd EXCEPT !.series[topic] =
             Capped(Pushed(@, [ timestamp |-> t, day |-> day,
                                value |-> ParseFloat(raw) ])) ]
    ELSE hd

\* historicalData after addHistoricalDataPoint(topic, value, timestamp).
AddHistoricalDataPoint(hd, last, topic, raw, t, day) ==
    IF Archives(last, topic, raw, t)
    THEN [ hd EXCEPT !.series[topic] =
             Capped(Pushed(@, [ timestamp |-> t, day |-> day,
                                value |-> ParseFloat(raw) ])) ]
    ELSE hd

\* Mutant: a sample that is due moves the mark, numeric or not.
Watermark_AnyDueSample(last, topic, raw, t) ==
    IF topic \in Archived /\ ~Throttled(t, last[topic])
    THEN [ last EXCEPT ![topic] = t ] ELSE last

\* lastArchivedTime after the same call.
Watermark(last, topic, raw, t) ==
    IF Archives(last, topic, raw, t) THEN [ last EXCEPT ![topic] = t ] ELSE last

\* Mutant: every call also removes the oldest point of each series.
PruneOldData_DropsOldest(hd, t) ==
    IF ~hd.isMap THEN hd
    ELSE [ hd EXCEPT !.series =
             [ k \in Archived |->
                 LET kept == SelectSeq(hd.series[k],
                                       LAMBDA entry :
                                         entry.timestamp > t - Retention)
                 IN  IF kept = << >> THEN kept ELSE Tail(kept) ] ]

\* pruneOldData; for (const topic in null) has nothing to visit.
PruneOldData(hd, t) ==
    IF ~hd.isMap THEN hd
    ELSE [ hd EXCEPT !.series =
             [ k \in Archived |-> SelectSeq(hd.series[k],
                                            LAMBDA entry :
                                              entry.timestamp > t - Retention) ] ]

\* saveHistoricalData: JSON.stringify(historicalData).
SavedHistory(hd) ==
    [ exists |-> TRUE, kind |-> IF hd.isMap THEN "map" ELSE "null",
      series |-> hd.series ]

\* loadHistoricalData at time t.  kind of the file content: "map" a map of
\* series, "text" not JSON (JSON.parse throws), "values" a map whose values
\* under the tracked keys are not arrays (pruneOldData throws), "null" JSON
\* that is not an object (nothing throws).  The catch block gives every
\* tracked key an empty series.
LoadedHistory(file, t) ==
    IF ~file.exists \/ file.kind \in {"text", "values"} THEN InitHistoricalData
    ELSE IF file.kind = "null" THEN [ InitHistoricalData EXCEPT !.isMap = FALSE ]
    ELSE PruneOldData([ isMap |-> TRUE, series |-> file.series ], t)

\* loadDailyStats: the charger state after startup.
LoadedChargerState(file, date) ==
    IF file.exists /\ file.date = date THEN file.chargerState
    ELSE InitChargerState

\* new Date().getHours() of the clock reading t.
GetHours(t) == (t % 86400) \div 3600

\* if (dailyStats.xStart === null) dailyStats.xStart = parseFloat(value)
Baseline(start, raw) == IF start = Null THEN ParseFloat(raw) ELSE start

\* Mutant: the statistics of the day before are kept on a new date.
UpdateDailyStats_NoReset(ds, date, day, topic, raw, t) ==
    LET power == ParseFloat(raw)
    IN  [ ds EXCEPT
            !.pvEnergyStart = IF topic = PvEnergyTopic
                              THEN Baseline(@, raw) ELSE @,
            !.loadEnergyStart = IF topic = LoadEnergyTopic
                                THEN Baseline(@, raw) ELSE @,
            !.batteryEnergyInStart = IF topic = BatteryInTopic
                                     THEN Baseline(@, raw) ELSE @,
            !.batteryEnergyOutStart = IF topic = BatteryOutTopic
                                      THEN Baseline(@, raw) ELSE @,
            !.peakPower = IF topic = PvTopic /\ ~IsNaN(power) /\ power > @
                          THEN power ELSE @,
            !.peakPowerHourly[GetHours(t)] =
                IF /\ topic = PvTopic
                   /\ \/ @ \in {Absent, 0, NaN}
                      \/ ~IsNaN(power) /\ power > @
                THEN power ELSE @ ]

\* updateDailyStats at the clock reading t: a new date replaces dailyStats;
\* the first sample of an energy counter sets its baseline; a higher PV
\* power sets the peak of the day, and the peak of the hour when that is
\* missing, 0 or NaN (falsy) or lower.
UpdateDailyStats(ds, date, day, topic, raw, t) ==
    LET base  == IF date # day THEN InitDailyStats ELSE ds
        power == ParseFloat(raw)
    IN  [ base EXCEPT
            !.pvEnergyStart = IF topic = PvEnergyTopic
                              THEN Baseline(@, raw) ELSE @,
            !.loadEnergyStart = IF topic = LoadEnergyTopic
                                THEN Baseline(@, raw) ELSE @,
            !.batteryEnergyInStart = IF topic = BatteryInTopic
                                     THEN Baseline(@, raw) ELSE @,
            !.batteryEnergyOutStart = IF topic = BatteryOutTopic
                                      THEN Baseline(@, raw) ELSE @,
            !.peakPower = IF topic = PvTopic /\ ~IsNaN(power) /\ power > @
                          THEN power ELSE @,
            !.peakPowerHourly[GetHours(t)] =
                IF /\ topic = PvTopic
                   /\ \/ @ \in {Absent, 0, NaN}
                      \/ ~IsNaN(power) /\ power > @
                THEN power ELSE @ ]

(***************************************************************************)
(* getMillisecondsUntilNext8PM and scheduleNextDailySummary.  The model    *)
(* clock counts seconds, and a day has 86400 of them: the installation     *)
(* runs on Arizona time, which has no daylight saving.                     *)
(***************************************************************************)
EightPM == 72000         \* 20:00:00 as seconds of the day

\* Mutant: 8 PM sharp still counts as "before 8 PM today".
GetMillisecondsUntilNext8PM_Inclusive(t) ==
    LET today8PM    == (t \div 86400) * 86400 + EightPM
        tomorrow8PM == today8PM + 86400
    IN  IF t <= today8PM THEN today8PM - t ELSE tomorrow8PM - t

GetMillisecondsUntilNext8PM(t) ==
    LET today8PM    == (t \div 86400) * 86400 + EightPM
        tomorrow8PM == today8PM + 86400
    IN  IF t < today8PM THEN today8PM - t ELSE tomorrow8PM - t

\* setTimeout(callback, msUntilNext) at clock reading t.
ScheduleNextDailySummary(timer, t) ==
    [ timer EXCEPT !.armed = Append(@, t + GetMillisecondsUntilNext8PM(t)) ]

\* The call of scheduleNextDailySummary at module load.
InitSummaryTimer(t) ==
    ScheduleNextDailySummary([ armed |-> << >>, sending |-> 0,
                               fired |-> Null ], t)

(***************************************************************************)
(* Initial state: module-level values, then the startup loads (no files).  *)
(***************************************************************************)
\* The variables that start the same way in every specification.
Started(e, script) ==
    /\ today = 0
    /\ env = e
    /\ statsFile = NoFile
    /\ chargerState = InitChargerState
    /\ statsDate = 0
    /\ lastArchivedTime = InitLastArchivedTime
    /\ peakDischargeState = InitPeakDischargeState
    /\ peakPending = 0
    /\ summaryPending = 0
    /\ summaries = 0
    /\ handlers = [ h \in Slots |-> IdleHandler ]
    /\ manual = IdleManual
    /\ cur = 0
    /\ delivered = 0
    /\ feed = script
    /\ restarts = 0
    /\ io = Quiet
    /\ alertLog = << >>
    /\ lastFlip = NoFlip
    /\ mustStayOn = FALSE

Fresh(e, script) ==
    /\ Started(e, script)
    /\ now = TickLen
    /\ horizon = TickLen * MaxTicks
    /\ disk = NoBackups
    /\ summaryTimer = InitSummaryTimer(now)
    /\ alertState = InitAlertState
    /\ alertHistory = << >>
    /\ cachedData = [ k \in Topics |-> NoEntry ]
    /\ historicalData = InitHistoricalData
    /\ historyFile = NoFile
    /\ dailyStats = InitDailyStats

Init ==
    /\ \E e \in Environments : Fresh(e, << >>)
    /\ settingsFile = NoFile
    /\ alertSettings = InitAlertSettings(env)

(***************************************************************************)
(* Ghost bookkeeping used by the properties (not program state)            *)
(***************************************************************************)
\* lastFlip after a control-loop commit that takes the charger state to cs2.
FlipAfter(cs1, cs2) ==
    IF cs1.isOn # cs2.isOn
    THEN [ at |-> cs2.lastActionTime, wall |-> now, to |-> cs2.isOn ]
    ELSE lastFlip

\* mustStayOn is dropped once the charger state has gone from ON to OFF.
StayOnAfter(cs1, cs2) == mustStayOn /\ ~(cs1.isOn /\ ~cs2.isOn)

Finish(h) == [ handlers EXCEPT ![h] = IdleHandler ]

(***************************************************************************)
(* client.on('message') for the battery SOC topic: the synchronous part up *)
(* to the call of checkBatteryAlerts (updateDailyStats sets the date).     *)
(***************************************************************************)
Arrive(raw) ==
    /\ cur = 0
    /\ FreeSlots # {}
    /\ cachedData' = Cached(cachedData, SocTopic, raw, now)
    /\ IF ArchiveThrows(historicalData, SocTopic)
       THEN /\ io' = Ran("message", ParseFloat(raw), "throw")
            /\ UNCHANGED <<statsDate, dailyStats, handlers, cur>>
       ELSE /\ statsDate' = today
            /\ dailyStats' = UpdateDailyStats(dailyStats, statsDate, today,
                                              SocTopic, raw, now)
            /\ handlers' = [ handlers EXCEPT ![FirstFree] =
                               [ pc |-> "alerts", soc |-> ParseFloat(raw),
                                 t |-> Null, ev |-> "none" ] ]
            /\ cur' = FirstFree
            /\ io' = Ran("message", ParseFloat(raw), "none")
    /\ UNCHANGED <<now, today, env, settingsFile, statsFile, alertSettings,
                   alertState, chargerState, alertHistory, manual,
                   restarts, alertLog, lastFlip, mustStayOn>>
    /\ UNCHANGED <<archive, others>>
    /\ UNCHANGED <<disk, summaryTimer>>

\* Any SOC payload may arrive (bounded number per behaviour).
MqttSoc(raw) ==
    /\ delivered < MaxSamples
    /\ delivered' = delivered + 1
    /\ feed' = feed
    /\ Arrive(raw)

\* The next payload of a scripted sequence arrives.
MqttFeed ==
    /\ delivered < Len(feed)
    /\ delivered' = delivered + 1
    /\ feed' = feed
    /\ Arrive(feed[delivered + 1])

(***************************************************************************)
(* client.on('message') for the battery temperature topic                  *)
(***************************************************************************)
MqttTemp(raw) ==
    /\ cur = 0
    /\ cachedData' = Cached(cachedData, TempTopic, raw, now)
    /\ IF ArchiveThrows(historicalData, TempTopic)
       THEN UNCHANGED <<statsDate, dailyStats>>
       ELSE /\ statsDate' = today
            /\ dailyStats' = UpdateDailyStats(dailyStats, statsDate, today,
                                              TempTopic, raw, now)
    /\ UNCHANGED <<archive, others>>
    /\ io' = Quiet
    /\ UNCHANGED <<now, today, env, feed, settingsFile, statsFile,
                   alertSettings, alertState, chargerState, alertHistory,
                   handlers, manual, cur, delivered, restarts, alertLog,
                   lastFlip, mustStayOn>>
    /\ UNCHANGED <<disk, summaryTimer>>

(***************************************************************************)
(* POST /settings/alerts/test-threshold: the same two calls with a         *)
(* simulated SOC; a non-numeric soc is answered 400.                       *)
(***************************************************************************)
PostTestThreshold(soc) ==
    /\ cur = 0
    /\ delivered < MaxSamples
    /\ FreeSlots # {}
    /\ IF IsNaN(ParseFloat(soc))
       THEN UNCHANGED <<handlers, cur>>
       ELSE /\ handlers' = [ handlers EXCEPT ![FirstFree] =
                               [ pc |-> "alerts", soc |-> ParseFloat(soc),
                                 t |-> Null, ev |-> "none" ] ]
            /\ cur' = FirstFree
    /\ delivered' = delivered + 1
    /\ io' = Ran("test-threshold", ParseFloat(soc), "none")
    /\ UNCHANGED <<now, today, env, feed, settingsFile, statsFile,
                   alertSettings, alertState, chargerState, alertHistory,
                   cachedData, statsDate, manual, restarts, alertLog, lastFlip,
                   mustStayOn>>
    /\ UNCHANGED <<archive, dailyStats, others>>
    /\ UNCHANGED <<disk, summaryTimer>>

(***************************************************************************)
(* checkBatteryAlerts, first test: SOC dropped below the low threshold     *)
(***************************************************************************)
AlertsLow(h) ==
    /\ cur = h
    /\ handlers[h].pc = "alerts"
    /\ LET socValue == handlers[h].soc IN
       IF AlertsOff(alertSettings, socValue)
       THEN /\ handlers' = [ handlers EXCEPT ![h].pc = "charger" ]
            /\ io' = Ran("alerts-low", socValue, "off")
            /\ UNCHANGED <<alertState, alertHistory, alertLog, cur>>
       ELSE IF DroppedBelow(alertState.belowThreshold, socValue,
                            alertSettings.lowThreshold)
       THEN /\ alertState' = [ belowThreshold |-> TRUE, lastAlertType |-> "low" ]
            /\ alertHistory' = PushHistory(alertHistory,
                                   Entry("low", socValue, now))
            /\ alertLog' = Append(alertLog, [ type |-> "low", value |-> socValue ])
            /\ io' = Mail("alerts-low", socValue, "on", Subjects.low)
            /\ IF MailGoesOut(alertSettings)
               THEN /\ handlers' = [ handlers EXCEPT ![h].pc = "await_mail_low" ]
                    /\ cur' = 0
               ELSE /\ handlers' = [ handlers EXCEPT ![h].pc = "alerts_rec" ]
                    /\ cur' = cur
       ELSE /\ handlers' = [ handlers EXCEPT ![h].pc = "alerts_rec" ]
            /\ io' = Ran("alerts-low", socValue, "on")
            /\ UNCHANGED <<alertState, alertHistory, alertLog, cur>>
    /\ UNCHANGED <<now, today, env, feed, settingsFile, statsFile,
                   alertSettings, chargerState, cachedData, statsDate, manual,
                   delivered, restarts, lastFlip, mustStayOn>>
    /\ UNCHANGED <<archive, dailyStats, others>>
    /\ UNCHANGED <<disk, summaryTimer>>

(***************************************************************************)
(* checkBatteryAlerts, second test: SOC recovered above the high threshold *)
(***************************************************************************)
AlertsRecovered(h) ==
    /\ cur = h
    /\ handlers[h].pc = "alerts_rec"
    /\ LET socValue == handlers[h].soc IN
       IF RecoveredAbove(alertState.belowThreshold, socValue,
                         alertSettings.highThreshold)
       THEN /\ alertState' = [ belowThreshold |-> FALSE,
                               lastAlertType |-> "recovered" ]
            /\ alertHistory' = PushHistory(alertHistory,
                                   Entry("recovered", socValue, now))
            /\ alertLog' = Append(alertLog,
                                  [ type |-> "recovered", value |-> socValue ])
            /\ io' = Mail("alerts-recovered", socValue, "on", Subjects.recovered)
            /\ IF MailGoesOut(alertSettings)
               THEN /\ handlers' = [ handlers EXCEPT ![h].pc = "await_mail_rec" ]
                    /\ cur' = 0
               ELSE /\ handlers' = [ handlers EXCEPT ![h].pc = "charger" ]
                    /\ cur' = cur
       ELSE /\ handlers' = [ handlers EXCEPT ![h].pc = "charger" ]
            /\ io' = Ran("alerts-recovered", socValue, "on")
            /\ UNCHANGED <<alertState, alertHistory, alertLog, cur>>
    /\ UNCHANGED <<now, today, env, feed, settingsFile, statsFile,
                   alertSettings, chargerState, cachedData, statsDate, manual,
                   delivered, restarts, lastFlip, mustStayOn>>
    /\ UNCHANGED <<archive, dailyStats, others>>
    /\ UNCHANGED <<disk, summaryTimer>>

(***************************************************************************)
(* The SendGrid call of a suspended SOC handler returns (its result is     *)
(* not used by any caller).                                                *)
(***************************************************************************)
MailDone(h) ==
    /\ cur = 0
    /\ handlers[h].pc \in {"await_mail_low", "await_mail_rec", "await_mail_cc"}
    /\ IF handlers[h].pc = "await_mail_low"
       THEN handlers' = [ handlers EXCEPT ![h].pc = "alerts_rec" ] /\ cur' = h
       ELSE IF handlers[h].pc = "await_mail_rec"
       THEN handlers' = [ handlers EXCEPT ![h].pc = "charger" ] /\ cur' = h
       ELSE handlers' = Finish(h) /\ cur' = 0
    /\ io' = Quiet
    /\ UNCHANGED <<now, today, env, feed, settingsFile, statsFile,
                   alertSettings, alertState, chargerState, alertHistory,
                   cachedData, statsDate, manual, delivered, restarts,
                   alertLog, lastFlip, mustStayOn>>
    /\ UNCHANGED <<archive, dailyStats, others>>
    /\ UNCHANGED <<disk, summaryTimer>>

(***************************************************************************)
(* controlBatteryCharger up to the await of fetch                          *)
(***************************************************************************)
ControlCharger(h) ==
    /\ cur = h
    /\ handlers[h].pc = "charger"
    /\ LET socValue == handlers[h].soc
           d == ChargerDecision(alertSettings, chargerState,
                                ParseFloat(cachedData[TempTopic].value), socValue, now)
       IN  IF d \in Events
           THEN /\ handlers' = [ handlers EXCEPT ![h].pc = "await_fetch",
                                                 ![h].t = now, ![h].ev = d ]
                /\ io' = [ Ran("control", socValue, "none") EXCEPT !.trigger = d ]
           ELSE /\ handlers' = Finish(h)
                /\ io' = [ Ran("control", socValue, "none") EXCEPT !.skip = d ]
    /\ cur' = 0
    /\ UNCHANGED <<now, today, env, feed, settingsFile, statsFile,
                   alertSettings, alertState, chargerState, alertHistory,
                   cachedData, statsDate, manual, delivered, restarts,
                   alertLog, lastFlip, mustStayOn>>
    /\ UNCHANGED <<archive, dailyStats, others>>
    /\ UNCHANGED <<disk, summaryTimer>>

\* The assignments made under if (response.ok).
Committed(cs, ev, t, socValue) ==
    [ cs EXCEPT !.isOn = (ev = "battery_low"),
                !.lastAction = IF ev = "battery_low" THEN "ON" ELSE "OFF",
                !.lastActionTime = t,
                !.lastSOC = socValue ]

\* The subject of the notification that follows the webhook call.
ControlSubject(ev, outcome) ==
    IF ResponseOk(outcome)
    THEN IF ev = "battery_low" THEN Subjects.activated ELSE Subjects.deactivated
    ELSE IF outcome = "notok" THEN Subjects.failed ELSE Subjects.error

(***************************************************************************)
(* The IFTTT call of the control loop returns: response.ok, a response     *)
(* that is not ok, or a rejection caught by the catch block.               *)
(***************************************************************************)
FetchDone(h, outcome) ==
    /\ cur = 0
    /\ handlers[h].pc = "await_fetch"
    /\ LET hd == handlers[h]
           cs2 == Committed(chargerState, hd.ev, hd.t, hd.soc)
           mail == Mail("fetch", hd.soc, outcome, ControlSubject(hd.ev, outcome))
       IN  /\ IF ResponseOk(outcome)
              THEN /\ chargerState' = cs2
                   /\ lastFlip' = FlipAfter(chargerState, cs2)
                   /\ mustStayOn' = StayOnAfter(chargerState, cs2)
                   /\ io' = [ mail EXCEPT !.commit = TRUE ]
              ELSE /\ io' = mail
                   /\ UNCHANGED <<chargerState, lastFlip, mustStayOn>>
           /\ IF MailGoesOut(alertSettings)
              THEN handlers' = [ handlers EXCEPT ![h].pc = "await_mail_cc" ]
              ELSE handlers' = Finish(h)
    /\ UNCHANGED <<now, today, env, feed, settingsFile, statsFile,
                   alertSettings, alertState, alertHistory, cachedData,
                   statsDate, manual, cur, delivered, restarts, alertLog>>
    /\ UNCHANGED <<archive, dailyStats, others>>
    /\ UNCHANGED <<disk, summaryTimer>>

(***************************************************************************)
(* POST /settings/charger/test up to the await of fetch                    *)
(***************************************************************************)
ManualEvent(action) == IF action = "on" THEN "battery_low" ELSE "battery_charged"

\* Mutant: the manual trigger honours the cooldown.
ManualAccepted_Cooldown(action, s) ==
    /\ action \in {"on", "off"}
    /\ ChargerControlReady(s)
    /\ ~InCooldown(now, chargerState.lastActionTime)

\* The request passes the validation and the feature / credential checks.
ManualAccepted(action, s) ==
    action \in {"on", "off"} /\ ChargerControlReady(s)

ManualTrigger(action) ==
    /\ cur = 0
    /\ manual.pc = "idle"
    /\ IF ManualAccepted(action, alertSettings)
       THEN /\ manual' = [ pc |-> "await_fetch", action |-> action ]
            /\ io' = [ Ran("manual", NaN, action) EXCEPT
                         !.trigger = ManualEvent(action) ]
       ELSE /\ manual' = manual
            /\ io' = Ran("manual", NaN, action)
    /\ UNCHANGED <<now, today, env, feed, settingsFile, statsFile, alertSettings,
                   alertState, chargerState, alertHistory, cachedData,
                   statsDate, handlers, cur, delivered, restarts, alertLog,
                   lastFlip, mustStayOn>>
    /\ UNCHANGED <<archive, dailyStats, others>>
    /\ UNCHANGED <<disk, summaryTimer>>

\* The assignments of the manual trigger under if (response.ok).
ManualCommitted(cs, action, t) ==
    [ cs EXCEPT !.isOn = (action = "on"),
                !.lastAction = action,
                !.lastActionTime = t,
                !.lastActionReason = "Manual test" ]

(***************************************************************************)
(* The IFTTT response of the manual trigger arrives                        *)
(***************************************************************************)
ManualFetchDone(outcome) ==
    /\ cur = 0
    /\ manual.pc = "await_fetch"
    /\ IF ResponseOk(outcome)
       THEN LET cs2 == ManualCommitted(chargerState, manual.action, now) IN
            /\ chargerState' = cs2
            /\ statsFile' = SavedStats(statsDate, dailyStats, cs2)
            /\ mustStayOn' = StayOnAfter(chargerState, cs2)
            /\ io' = [ Mail("manual-fetch", NaN, outcome,
                            IF manual.action = "on" THEN Subjects.testOn
                                                    ELSE Subjects.testOff)
                         EXCEPT !.commit = TRUE ]
            /\ manual' = IF MailGoesOut(alertSettings)
                         THEN [ manual EXCEPT !.pc = "await_mail" ]
                         ELSE IdleManual
       ELSE /\ manual' = IdleManual
            /\ io' = Ran("manual-fetch", NaN, outcome)
            /\ UNCHANGED <<chargerState, statsFile, mustStayOn>>
    /\ UNCHANGED <<now, today, env, feed, settingsFile, alertSettings, alertState,
                   alertHistory, cachedData, statsDate, handlers, cur,
                   delivered, restarts, alertLog, lastFlip>>
    /\ UNCHANGED <<archive, dailyStats, others>>
    /\ UNCHANGED <<disk, summaryTimer>>

ManualMailDone ==
    /\ cur = 0
    /\ manual.pc = "await_mail"
    /\ manual' = IdleManual
    /\ io' = Quiet
    /\ UNCHANGED <<now, today, env, feed, settingsFile, statsFile, alertSettings,
                   alertState, chargerState, alertHistory, cachedData,
                   statsDate, handlers, cur, delivered, restarts, alertLog,
                   lastFlip, mustStayOn>>
    /\ UNCHANGED <<archive, dailyStats, others>>
    /\ UNCHANGED <<disk, summaryTimer>>

(***************************************************************************)
(* POST /settings/alerts.  A switch is "keep", a threshold Absent, a key    *)
(* FALSE when the body leaves the field undefined; the fields of the body  *)
(* that are not listed (addresses, plug name, charger thresholds, maxTemp) *)
(* are undefined in the modelled requests.                                 *)
(***************************************************************************)
Switch == {"keep", "on", "off"}
\* New alert thresholds: a low one above the default high threshold, a high
\* one below the default low threshold.
NewLowThresholds  == {Absent, DefaultAlertHigh + 1}
NewHighThresholds == {Absent, DefaultAlertLow - 5}
SettingsBodies ==
    [ enabled : Switch, ccEnabled : Switch, sendgridApiKey : BOOLEAN,
      iftttWebhookKey : BOOLEAN, lowThreshold : NewLowThresholds,
      highThreshold : NewHighThresholds ]
\* Requests that change the charger-control section only, the alert section only.
ChargerBodies ==
    { b \in SettingsBodies : /\ b.enabled = "keep" /\ ~b.sendgridApiKey
                             /\ b.lowThreshold = Absent
                             /\ b.highThreshold = Absent }
AlertBodies ==
    { b \in SettingsBodies : b.ccEnabled = "keep" /\ ~b.iftttWebhookKey }

Switched(old, sw) == IF sw = "keep" THEN old ELSE sw = "on"

Replaced(old, new) == IF new = Absent THEN old ELSE ParseFloat(new)

UpdatedSettings(s, body) ==
    [ s EXCEPT !.enabled = Switched(@, body.enabled),
               !.lowThreshold = Replaced(@, body.lowThreshold),
               !.highThreshold = Replaced(@, body.highThreshold),
               !.sendgridApiKey = @ \/ body.sendgridApiKey,
               !.chargerControl.enabled = Switched(@, body.ccEnabled),
               !.chargerControl.iftttWebhookKey = @ \/ body.iftttWebhookKey ]

PostSettings(body) ==
    /\ cur = 0
    /\ alertSettings' = UpdatedSettings(alertSettings, body)
    /\ settingsFile' = SavedSettings(alertSettings')
    /\ io' = Quiet
    /\ UNCHANGED <<now, today, env, feed, statsFile, alertState, chargerState,
                   alertHistory, cachedData, statsDate, handlers, manual, cur,
                   delivered, restarts, alertLog, lastFlip, mustStayOn>>
    /\ UNCHANGED <<archive, dailyStats, others>>
    /\ UNCHANGED <<disk, summaryTimer>>

(***************************************************************************)
(* setInterval(..., SAVE_INTERVAL): pruneOldData, saveHistoricalData,      *)
(* saveDailyStats                                                          *)
(***************************************************************************)
SaveTimer ==
    /\ cur = 0
    /\ historicalData' = PruneOldData(historicalData, now)
    /\ historyFile' = SavedHistory(historicalData')
    /\ statsFile' = SavedStats(statsDate, dailyStats, chargerState)
    /\ io' = Ran("save", NaN, "none")
    /\ UNCHANGED <<lastArchivedTime, dailyStats, others>>
    /\ UNCHANGED <<now, today, env, feed, settingsFile, alertSettings, alertState,
                   chargerState, alertHistory, cachedData, statsDate, handlers,
                   manual, cur, delivered, restarts, alertLog, lastFlip,
                   mustStayOn>>
    /\ UNCHANGED <<disk, summaryTimer>>

(***************************************************************************)
(* The environment: the clock advances, the calendar date changes.         *)
(***************************************************************************)
Tick ==
    /\ cur = 0
    /\ now < TickLen * MaxTicks
    /\ now' = now + TickLen
    /\ io' = Quiet
    /\ UNCHANGED <<today, env, feed, settingsFile, statsFile, alertSettings,
                   alertState, chargerState, alertHistory, cachedData,
                   statsDate, handlers, manual, cur, delivered, restarts,
                   alertLog, lastFlip, mustStayOn>>
    /\ UNCHANGED <<archive, dailyStats, others>>
    /\ UNCHANGED <<disk, summaryTimer>>

NewDay ==
    /\ cur = 0
    /\ today < MaxDays
    /\ today' = today + 1
    /\ io' = Quiet
    /\ UNCHANGED <<now, env, feed, settingsFile, statsFile, alertSettings,
                   alertState, chargerState, alertHistory, cachedData,
                   statsDate, handlers, manual, cur, delivered, restarts,
                   alertLog, lastFlip, mustStayOn>>
    /\ UNCHANGED <<archive, dailyStats, others>>
    /\ UNCHANGED <<disk, summaryTimer>>

(***************************************************************************)
(* The process stops and starts again.  graceful: the SIGINT handler ran   *)
(* saveHistoricalData and saveDailyStats before exit; otherwise the        *)
(* process was killed.  Startup re-creates the module-level state and runs *)
(* loadHistoricalData, loadDailyStats and loadAlertSettings.               *)
(***************************************************************************)
Restart(graceful) ==
    /\ cur = 0
    /\ restarts < MaxRestarts
    /\ restarts' = restarts + 1
    /\ statsFile' = IF graceful
                    THEN SavedStats(statsDate, dailyStats, chargerState)
                    ELSE statsFile
    /\ historyFile' = IF graceful THEN SavedHistory(historicalData)
                      ELSE historyFile
    /\ historicalData' = LoadedHistory(historyFile', now)
    /\ lastArchivedTime' = InitLastArchivedTime
    /\ dailyStats' = LoadedDailyStats(statsFile', today)
    /\ peakDischargeState' = InitPeakDischargeState
    /\ peakPending' = 0
    /\ summaryPending' = 0
    /\ UNCHANGED <<summaries, horizon>>
    /\ chargerState' = LoadedChargerState(statsFile', today)
    /\ alertSettings' = LoadedSettings(settingsFile, env)
    /\ alertState' = InitAlertState
    /\ alertHistory' = << >>
    /\ cachedData' = [ k \in Topics |-> NoEntry ]
    /\ statsDate' = today
    /\ handlers' = [ h \in Slots |-> IdleHandler ]
    /\ manual' = IdleManual
    /\ io' = Quiet
    /\ alertLog' = << >>
    /\ lastFlip' = NoFlip
    /\ mustStayOn' = (statsFile'.exists /\ statsFile'.chargerState.isOn)
    /\ UNCHANGED <<now, today, env, feed, settingsFile, cur, delivered>>
    /\ summaryTimer' = [ InitSummaryTimer(now)
                           EXCEPT !.fired = summaryTimer.fired ]
    /\ UNCHANGED disk

(***************************************************************************)
(* client.on('message') for a topic that has no handler of its own: the    *)
(* cache entry is replaced, addHistoricalDataPoint archives the sample,    *)
(* updateDailyStats follows unless the archive threw.  io.soc is the       *)
(* payload as received, io.arg the topic.                                  *)
(***************************************************************************)
MqttData(topic, raw) ==
    /\ cur = 0
    /\ cachedData' = Cached(cachedData, topic, raw, now)
    /\ IF ArchiveThrows(historicalData, topic)
       THEN /\ io' = [ Ran("data", raw, topic) EXCEPT !.skip = "throw" ]
            /\ UNCHANGED <<archive, statsDate, dailyStats>>
       ELSE /\ historicalData' = AddHistoricalDataPoint(historicalData,
                                     lastArchivedTime, topic, raw, now, today)
            /\ lastArchivedTime' = Watermark(lastArchivedTime, topic, raw, now)
            /\ historyFile' = historyFile
            /\ statsDate' = today
            /\ dailyStats' = UpdateDailyStats(dailyStats, statsDate, today,
                                              topic, raw, now)
            /\ io' = Ran("data", raw, topic)
    /\ UNCHANGED <<now, today, env, feed, settingsFile, statsFile,
                   alertSettings, alertState, chargerState, alertHistory,
                   handlers, manual, cur, delivered, restarts, alertLog,
                   lastFlip, mustStayOn, others>>
    /\ UNCHANGED <<disk, summaryTimer>>

(***************************************************************************)
(* The dashboard functions of GET /data and of the page: the energy        *)
(* produced and consumed today and the power balance.  A result is the     *)
(* number that the returned text shows, in hundredths for toFixed(2), or   *)
(* NaN for the text 'NaN'.                                                 *)
(***************************************************************************)
\* if (currentEnergy): undefined, null, 0 and '' are falsy.
HasValue(value) == value \notin {Absent, Null, 0}

\* x.toFixed(2)
ToFixed2(x) == IF IsNaN(x) THEN NaN ELSE x * 100

\* a - b in floating point: NaN if either is NaN.
Minus(a, b) == IF IsNaN(a) \/ IsNaN(b) THEN NaN ELSE a - b

\* The loop of getDailyEnergyProduced over the points of today: the mean
\* power of two neighbours times the hours between them, in kWh.
RECURSIVE Integrated(_)
Integrated(points) ==
    IF Len(points) < 2 THEN 0
    ELSE Integrated(Tail(points))
         + ((points[1].value + points[2].value)
            * (points[2].timestamp - points[1].timestamp)) \div 7200000

\* pvEnergyStart as getDailyEnergyProduced leaves it.
ProducedBaseline(ds, hd, day, currentValue) ==
    IF ds.pvEnergyStart # Null THEN ds.pvEnergyStart
    ELSE LET todayData == SelectSeq(hd.series[PvTopic],
                                    LAMBDA point : point.day = day)
         IN  IF todayData # << >>
             THEN Minus(currentValue, Integrated(todayData))
             ELSE currentValue

GetDailyEnergyProduced ==
    /\ cur = 0
    /\ LET currentEnergy == cachedData[PvEnergyTopic].value
           currentValue  == ParseFloat(currentEnergy)
           start == ProducedBaseline(dailyStats, historicalData, today,
                                     currentValue)
           diff  == Minus(currentValue, start)
       IN  IF ~HasValue(currentEnergy)
           THEN /\ io' = [ Ran("produced", NaN, "none") EXCEPT !.result = 0 ]
                /\ dailyStats' = dailyStats
           ELSE IF dailyStats.pvEnergyStart = Null /\ ~historicalData.isMap
           THEN /\ io' = [ Ran("produced", NaN, "none") EXCEPT !.skip = "throw" ]
                /\ dailyStats' = dailyStats
           ELSE /\ dailyStats' = [ dailyStats EXCEPT !.pvEnergyStart = start ]
                /\ io' = [ Ran("produced", NaN, "none") EXCEPT !.result =
                             ToFixed2(IF IsNaN(diff) THEN NaN
                                      ELSE IF diff > 0 THEN diff ELSE 0) ]
    /\ UNCHANGED <<now, today, env, feed, settingsFile, statsFile,
                   alertSettings, alertState, chargerState, alertHistory,
                   cachedData, statsDate, handlers, manual, cur, delivered,
                   restarts, alertLog, lastFlip, mustStayOn, archive, others>>
    /\ UNCHANGED <<disk, summaryTimer>>

GetDailyEnergyConsumed ==
    /\ cur = 0
    /\ LET currentEnergy == cachedData[LoadEnergyTopic].value IN
       IF ~HasValue(currentEnergy)
       THEN /\ io' = [ Ran("consumed", NaN, "none") EXCEPT !.result = 0 ]
            /\ dailyStats' = dailyStats
       ELSE IF dailyStats.loadEnergyStart = Null
       THEN /\ dailyStats' = [ dailyStats EXCEPT
                                 !.loadEnergyStart = ParseFloat(currentEnergy) ]
            /\ io' = [ Ran("consumed", NaN, "none") EXCEPT !.result = 0 ]
       ELSE /\ dailyStats' = dailyStats
            /\ io' = [ Ran("consumed", NaN, "none") EXCEPT !.result =
                         ToFixed2(Minus(ParseFloat(currentEnergy),
                                        dailyStats.loadEnergyStart)) ]
    /\ UNCHANGED <<now, today, env, feed, settingsFile, statsFile,
                   alertSettings, alertState, chargerState, alertHistory,
                   cachedData, statsDate, handlers, manual, cur, delivered,
                   restarts, alertLog, lastFlip, mustStayOn, archive, others>>
    /\ UNCHANGED <<disk, summaryTimer>>

\* Math.round of a number given in tenths: the nearest integer, halves up.
Round(tenths) == (tenths + 5) \div 10

\* Mutant: a charging battery counts whether or not the charger is ON.
ExternalChargerPower_AnyCharging(isOn, batteryPower) ==
    IF ~IsNaN(batteryPower) /\ batteryPower > 0 THEN batteryPower ELSE 0

\* (isExternalChargerOn && batteryPower > 0) ? batteryPower : 0
ExternalChargerPower(isOn, batteryPower) ==
    IF isOn /\ ~IsNaN(batteryPower) /\ batteryPower > 0 THEN batteryPower ELSE 0

\* getPowerBalance.  In SpecBalance the cached powers are in tenths of a
\* watt, so that inputs with a fraction exist; the result is in watts.
GetPowerBalance ==
    /\ cur = 0
    /\ LET solarPower   == ParseFloat(cachedData[PvTopic].value)
           loadPower    == ParseFloat(cachedData[LoadTopic].value)
           batteryPower == ParseFloat(cachedData[BatteryTopic].value)
       IN  IF ~IsNaN(solarPower) /\ ~IsNaN(loadPower)
           THEN io' = [ Ran("balance", NaN, "none") EXCEPT !.result =
                          Round(solarPower
                                + ExternalChargerPower(chargerState.isOn,
                                                       batteryPower)
                                - loadPower) ]
           ELSE io' = [ Ran("balance", NaN, "none") EXCEPT !.skip = "N/A" ]
    /\ UNCHANGED <<now, today, env, feed, settingsFile, statsFile,
                   alertSettings, alertState, chargerState, alertHistory,
                   cachedData, statsDate, handlers, manual, cur, delivered,
                   restarts, alertLog, lastFlip, mustStayOn, archive,
                   dailyStats, others>>
    /\ UNCHANGED <<disk, summaryTimer>>

\* parseFloat(cachedData[...battery_voltage...]?.value) || 48, in volts.
BatteryVoltage(raw) ==
    IF IsNaN(ParseFloat(raw)) \/ ParseFloat(raw) = 0 THEN 48
    ELSE ParseFloat(raw)

\* Math.round(a / b) and the digits of (a / b).toFixed(0), for a >= 0, b > 0.
RoundDiv(a, b) == (2 * a + b) \div (2 * b)

\* Mutant: a runtime of a day or more is still shown in hours.
FormatRuntime_NoDays(wh, drain) ==
    IF 10 * wh < drain
    THEN [ unit |-> "min", n |-> RoundDiv(600 * wh, drain) ]
    ELSE [ unit |-> "hrs", n |-> RoundDiv(100 * wh, drain) ]

\* The formatting of runtimeHours = wh / (drain / 10): whole minutes below
\* one hour, tenths of an hour below 24 hours, tenths of a day from there on
\* (n is the number printed, in minutes or in tenths).
FormatRuntime(wh, drain) ==
    IF 10 * wh < drain
    THEN [ unit |-> "min", n |-> RoundDiv(600 * wh, drain) ]
    ELSE IF 10 * wh < 24 * drain
    THEN [ unit |-> "hrs", n |-> RoundDiv(100 * wh, drain) ]
    ELSE [ unit |-> "days", n |-> RoundDiv(100 * wh, 24 * drain) ]

\* getBatteryRuntime.  The cached powers are in tenths of a watt, the SOC in
\* percent, the voltage in volts; io.skip is the text returned or the unit
\* of the number in io.result.
GetBatteryRuntime ==
    /\ cur = 0
    /\ RuntimeTopics \subseteq DOMAIN cachedData
    /\ LET soc          == ParseFloat(cachedData[SocTopic].value)
           solarPower   == ParseFloat(cachedData[PvTopic].value)
           loadPower    == ParseFloat(cachedData[LoadTopic].value)
           batteryPower == ParseFloat(cachedData[BatteryTopic].value)
           batteryCapacity == 300
           batteryVoltage  == BatteryVoltage(cachedData[VoltageTopic].value)
           powerBalance == solarPower
                             + ExternalChargerPower(chargerState.isOn,
                                                    batteryPower)
                             - loadPower
           availableEnergy == (batteryCapacity * batteryVoltage * soc) \div 100
           shown == FormatRuntime(availableEnergy, 0 - powerBalance)
           ran   == Ran("runtime", soc, "none")
       IN  IF ~IsNaN(soc) /\ ~IsNaN(solarPower) /\ ~IsNaN(loadPower)
           THEN IF powerBalance > 0
                THEN io' = [ ran EXCEPT !.skip = "Indefinite" ]
                ELSE IF powerBalance < 0
                THEN io' = [ ran EXCEPT !.skip = shown.unit,
                                        !.result = shown.n ]
                ELSE io' = [ ran EXCEPT !.skip = "Infinite" ]
           ELSE io' = [ ran EXCEPT !.skip = "N/A" ]
    /\ UNCHANGED <<now, today, env, feed, settingsFile, statsFile,
                   alertSettings, alertState, chargerState, alertHistory,
                   cachedData, statsDate, handlers, manual, cur, delivered,
                   restarts, alertLog, lastFlip, mustStayOn, archive,
                   dailyStats, others>>
    /\ UNCHANGED <<disk, summaryTimer>>

\* The loop of getPeakPerformance over dataPoints, from peakValue = 0 and
\* peakTimestamp = null: a point takes over when its value is greater.
RECURSIVE PeakOf(_, _)
PeakOf(dataPoints, peak) ==
    IF dataPoints = << >> THEN peak
    ELSE PeakOf(Tail(dataPoints),
                IF Head(dataPoints).value > peak.value
                THEN [ value |-> Head(dataPoints).value,
                       timestamp |-> Head(dataPoints).timestamp ]
                ELSE peak)

\* dataPoints.filter(point => new Date(point.timestamp) >= startTime); range
\* is timeRangeHours * 3600 (the clock counts seconds), or Null.
InRange(series, range, t) ==
    IF range = Null THEN series
    ELSE SelectSeq(series, LAMBDA point : point.timestamp >= t - range)

\* getPeakPerformance(timeRangeHours), as GET /data/peak-performance and
\* GET /data call it.  io.skip is 'N/A' or what the call throws; io.result
\* is the number of watts shown and io.at the timestamp shown.
GetPeakPerformance(range) ==
    /\ cur = 0
    /\ LET ran == Ran("peak", range, "none") IN
       IF ~historicalData.isMap
       THEN io' = [ ran EXCEPT !.skip = "throw" ]
       ELSE LET dataPoints == InRange(historicalData.series[PvTopic], range,
                                      now)
                peak == PeakOf(dataPoints, [ value |-> 0, timestamp |-> Null ])
            IN  IF dataPoints = << >> \/ peak.timestamp = Null
                THEN io' = [ ran EXCEPT !.skip = "N/A" ]
                ELSE io' = [ ran EXCEPT !.result = Round(peak.value),
                                        !.at = peak.timestamp ]
    /\ UNCHANGED <<now, today, env, feed, settingsFile, statsFile,
                   alertSettings, alertState, chargerState, alertHistory,
                   cachedData, statsDate, handlers, manual, cur, delivered,
                   restarts, alertLog, lastFlip, mustStayOn, archive,
                   dailyStats, others>>
    /\ UNCHANGED <<disk, summaryTimer>>

(***************************************************************************)
(* backup.js and restore.js: scripts that run to their end in a process of *)
(* their own.                                                              *)
(***************************************************************************)
\* The content of a file in the directory of app.js.
CurrentFile(f) ==
    CASE f = "alert_settings.json" -> settingsFile
      [] f = "daily_stats.json"    -> statsFile
      [] f = "data_history.json"   -> historyFile
      [] OTHER                     -> disk.files[f]

IsBackup(entry) == entry.prefix = "backup_"

\* Mutant: the oldest keepCount backups are the ones kept.
CleanOldBackups_KeepsOldest(dir, keepCount) ==
    LET backups  == SortSeq(SelectSeq(dir, IsBackup),
                            LAMBDA a, b : a.mtime < b.mtime)
        toDelete == IF Len(backups) > keepCount
                    THEN SubSeq(backups, keepCount + 1, Len(backups))
                    ELSE << >>
    IN  SelectSeq(dir, LAMBDA entry :
                         \A i \in 1 .. Len(toDelete) : toDelete[i] # entry)

\* cleanOldBackups(keepCount): the names that start with backup_, newest
\* mtime first; those after the first keepCount are removed.
CleanOldBackups(dir, keepCount) ==
    LET backups  == SortSeq(SelectSeq(dir, IsBackup),
                            LAMBDA a, b : a.mtime > b.mtime)
        toDelete == IF Len(backups) > keepCount
                    THEN SubSeq(backups, keepCount + 1, Len(backups))
                    ELSE << >>
    IN  SelectSeq(dir, LAMBDA entry :
                         \A i \in 1 .. Len(toDelete) : toDelete[i] # entry)

\* backup.js.  The folder is named after the second of the run; each file
\* that exists is copied; require('./package.json') throws when that file
\* is missing and the run ends before backup_info.json and the clean-up.
BackupRun ==
    /\ LET same   == { i \in 1 .. Len(disk.dir) :
                         IsBackup(disk.dir[i]) /\ disk.dir[i].stamp = now }
           copies == [ f \in { BackupFiles[i] : i \in 1 .. Len(BackupFiles) }
                         |-> IF CurrentFile(f).exists THEN CurrentFile(f)
                             ELSE IF same # {}
                             THEN disk.dir[CHOOSE i \in same : TRUE].files[f]
                             ELSE NoFile ]
           done   == CurrentFile("package.json").exists
           folder == [ prefix |-> "backup_", stamp |-> now, mtime |-> now,
                       files |-> copies, info |-> done ]
           listed == IF same = {} THEN Append(disk.dir, folder)
                     ELSE [ i \in 1 .. Len(disk.dir) |->
                              IF i \in same THEN folder ELSE disk.dir[i] ]
       IN  /\ disk' = [ disk EXCEPT !.dir =
                          IF done THEN CleanOldBackups(listed, KeepCount)
                          ELSE listed ]
           /\ io' = [ Ran("backup", NaN, "none") EXCEPT
                        !.skip = IF done THEN "none" ELSE "failed" ]
    /\ UNCHANGED <<now, today, env, feed, settingsFile, statsFile,
                   alertSettings, alertState, chargerState, alertHistory,
                   cachedData, statsDate, handlers, manual, cur, delivered,
                   restarts, alertLog, lastFlip, mustStayOn, archive,
                   dailyStats, others, summaryTimer>>

\* The first n elements of a sequence.
Taken(seq, n) == SubSeq(seq, 1, IF n < 0 THEN 0 ELSE IF n > Len(seq) THEN Len(seq) ELSE n)

\* Mutant: restore.js without the copies of the current files.
Saved_Nothing(saves, completed) == { }

\* The files that performRestore has copied into the before_restore_ folder
\* once `completed` of its file-system calls have returned (the first one
\* makes the folder).
Saved(saves, completed) ==
    { saves[i] : i \in 1 .. Len(Taken(saves, completed - 1)) }

\* restore.js with the number of a listed backup (the list is sorted by
\* mtime, any of its entries can be chosen).  performRestore makes the
\* before_restore_ folder, copies the current files that exist into it and
\* then copies the files of the backup over the current ones; any of these
\* calls can throw, which ends the run: `completed` calls have returned
\* (all of them when `completed` is not less than their number).
\* The folder is named after Date.now() in milliseconds: two runs do not
\* share one.
RestoreRun(b, completed) ==
    /\ b \in 1 .. Len(disk.dir) /\ IsBackup(disk.dir[b])
    /\ \A i \in 1 .. Len(disk.dir) :
          ~(disk.dir[i].prefix = "before_restore_" /\ disk.dir[i].stamp = now)
    /\ LET backup == disk.dir[b]
           saves  == SelectSeq(BackupFiles, LAMBDA f : CurrentFile(f).exists)
           writes == SelectSeq(BackupFiles, LAMBDA f : backup.files[f].exists)
           total  == 1 + Len(saves) + Len(writes)
           saved  == Saved(saves, completed)
           written == { writes[i] :
                          i \in 1 .. Len(Taken(writes,
                                               completed - 1 - Len(saves))) }
           beforeRestoreDir ==
               [ prefix |-> "before_restore_", stamp |-> now, mtime |-> now,
                 files |-> [ f \in DOMAIN backup.files |->
                               IF f \in saved THEN CurrentFile(f)
                               ELSE NoFile ],
                 info |-> FALSE ]
           After(f) == IF f \in written THEN backup.files[f]
                       ELSE CurrentFile(f)
       IN  /\ completed \in 0 .. 1 + 2 * Len(BackupFiles)
           /\ settingsFile' = After("alert_settings.json")
           /\ statsFile' = After("daily_stats.json")
           /\ historyFile' = After("data_history.json")
           /\ disk' = [ files |-> [ f \in OtherFiles |-> After(f) ],
                        dir   |-> IF completed = 0 THEN disk.dir
                                  ELSE Append(disk.dir, beforeRestoreDir) ]
           /\ io' = [ Ran("restore", NaN, "none") EXCEPT
                        !.skip = IF completed >= total THEN "none"
                                 ELSE "failed",
                        !.result = IF completed >= total THEN total
                                   ELSE completed ]
    /\ UNCHANGED <<now, today, env, feed, alertSettings, alertState,
                   chargerState, alertHistory, cachedData, statsDate,
                   handlers, manual, cur, delivered, restarts, alertLog,
                   lastFlip, mustStayOn, historicalData, lastArchivedTime,
                   dailyStats, others, summaryTimer>>

\* The history file is deleted or damaged from outside the program.
DamageFile(kind) ==
    /\ cur = 0
    /\ restarts < MaxRestarts
    /\ historyFile' = IF kind = "none" THEN NoFile
                      ELSE [ exists |-> TRUE, kind |-> kind,
                             series |-> InitHistoricalData.series ]
    /\ io' = Quiet
    /\ UNCHANGED <<now, today, env, feed, settingsFile, statsFile,
                   alertSettings, alertState, chargerState, alertHistory,
                   cachedData, statsDate, handlers, manual, cur, delivered,
                   restarts, alertLog, lastFlip, mustStayOn, others>>
    /\ UNCHANGED <<historicalData, lastArchivedTime, dailyStats>>
    /\ UNCHANGED <<disk, summaryTimer>>

(***************************************************************************)
(* client.on('message') for the battery power topic: cache, archive,       *)
(* updateDailyStats, then monitorPeakDischarge up to its await of          *)
(* sendEmailAlert.  inPeak is isWithinPeakHours() at the call.  No request *)
(* assigns alertSettings.peakDischargeAlert.enabled, which starts true.    *)
(***************************************************************************)
\* new Date() of the clock reading t, in local time: getMonth() (0 is
\* January; the model's months have 31 days) and getHours() * 60 +
\* getMinutes().
GetMonth(t) == (t \div (31 * 86400)) % 12

MinuteOfDay(t) == (t % 86400) \div 60

\* getSeasonalPeakHours: startHour and endHour, in minutes of the day.
GetSeasonalPeakHours(month) ==
    LET solarNoon    == 12 * 60
        peakDuration == IF month >= 5 /\ month <= 7 THEN 300
                        ELSE IF \/ month >= 3 /\ month <= 4
                                \/ month >= 8 /\ month <= 9 THEN 270
                        ELSE 240
    IN  [ startHour |-> solarNoon - peakDuration \div 2,
          endHour   |-> solarNoon + peakDuration \div 2 ]

\* isWithinPeakHours at the clock reading t.
IsWithinPeakHours(t) ==
    LET peakHours == GetSeasonalPeakHours(GetMonth(t)) IN
    /\ MinuteOfDay(t) >= peakHours.startHour
    /\ MinuteOfDay(t) <= peakHours.endHour

\* const isDischarging = batteryPowerValue < -50
Discharging(power) == power < 0 - DischargeBelow

\* Mutant: the alert is due again on every later sample of the episode.
PeakAlertDue_EverySample(st, t) ==
    /\ st.isDischarging
    /\ (t - st.dischargeStartTime) \div 60 >= PeakMinutes

\* The alert of monitorPeakDischarge is due: durationMinutes is
\* Math.floor((now - dischargeStartTime) / 60000).
PeakAlertDue(st, t) ==
    /\ st.isDischarging
    /\ (t - st.dischargeStartTime) \div 60 >= PeakMinutes
    /\ ~st.alertSent

\* Mutant: a sample that ends the episode leaves its start time in place,
\* and the next episode counts from there.
Monitored_KeepsStart(st, power, inPeak, t) ==
    IF IsNaN(power) THEN st
    ELSE IF inPeak /\ Discharging(power)
    THEN IF ~st.isDischarging
         THEN [ st EXCEPT !.isDischarging = TRUE,
                          !.dischargeStartTime =
                              IF @ = Null THEN t ELSE @,
                          !.alertSent = FALSE ]
         ELSE IF PeakAlertDue(st, t)
         THEN [ st EXCEPT !.alertSent = TRUE, !.lastAlertTime = t ]
         ELSE st
    ELSE IF st.isDischarging
    THEN [ st EXCEPT !.isDischarging = FALSE, !.alertSent = FALSE ]
    ELSE st

\* peakDischargeState after monitorPeakDischarge(power) at time t.
Monitored(st, power, inPeak, t) ==
    IF IsNaN(power) THEN st
    ELSE IF inPeak /\ Discharging(power)
    THEN IF ~st.isDischarging
         THEN [ st EXCEPT !.isDischarging = TRUE, !.dischargeStartTime = t,
                          !.alertSent = FALSE ]
         ELSE IF PeakAlertDue(st, t)
         THEN [ st EXCEPT !.alertSent = TRUE, !.lastAlertTime = t ]
         ELSE st
    ELSE IF st.isDischarging
    THEN [ st EXCEPT !.isDischarging = FALSE, !.dischargeStartTime = Null,
                     !.alertSent = FALSE ]
    ELSE st

\* client.on('message') for the battery power topic; inPeak is what
\* isWithinPeakHours() returns for the wall clock at that moment.
MqttBattery(raw, inPeak) ==
    /\ cur = 0
    /\ cachedData' = Cached(cachedData, BatteryTopic, raw, now)
    /\ IF ArchiveThrows(historicalData, BatteryTopic)
       THEN /\ io' = Ran("battery", ParseFloat(raw), "throw")
            /\ UNCHANGED <<statsDate, dailyStats, peakDischargeState,
                           peakPending, alertHistory>>
       ELSE LET power == ParseFloat(raw)
                alerts == /\ alertSettings.peakDischargeAlert.enabled
                          /\ ~IsNaN(power) /\ inPeak /\ Discharging(power)
                          /\ PeakAlertDue(peakDischargeState, now)
            IN  /\ alerts /\ MailGoesOut(alertSettings) => peakPending < MaxInFlight
                /\ statsDate' = today
                /\ dailyStats' = UpdateDailyStats(dailyStats, statsDate, today,
                                                  BatteryTopic, raw, now)
                /\ peakDischargeState' =
                       IF alertSettings.peakDischargeAlert.enabled
                       THEN Monitored(peakDischargeState, power, inPeak, now)
                       ELSE peakDischargeState
                /\ IF ~alerts
                   THEN /\ io' = [ Ran("battery", power, "none") EXCEPT
                                     !.skip = IF inPeak THEN "none"
                                              ELSE "off-peak" ]
                        /\ UNCHANGED <<peakPending, alertHistory>>
                   ELSE /\ io' = Mail("battery", power, "alert", Subjects.peak)
                        /\ IF MailGoesOut(alertSettings)
                           THEN /\ peakPending' = peakPending + 1
                                /\ alertHistory' = alertHistory
                           ELSE /\ peakPending' = peakPending
                                /\ alertHistory' = PushHistory(alertHistory,
                                        Entry("peak_discharge", NaN, now))
    /\ UNCHANGED <<now, today, env, feed, settingsFile, statsFile,
                   alertSettings, alertState, chargerState, handlers, manual,
                   cur, delivered, restarts, alertLog, lastFlip, mustStayOn>>
    /\ UNCHANGED <<archive, summaryPending, summaries, horizon>>
    /\ UNCHANGED <<disk, summaryTimer>>

(***************************************************************************)
(* sendEmailAlert of a peak-discharge alert returns (sent or failed): the  *)
(* alert is added to alertHistory.                                         *)
(***************************************************************************)
PeakMailDone ==
    /\ cur = 0
    /\ peakPending > 0
    /\ peakPending' = peakPending - 1
    /\ alertHistory' = PushHistory(alertHistory,
                                   Entry("peak_discharge", NaN, now))
    /\ io' = Ran("peak-mail", NaN, "none")
    /\ UNCHANGED <<now, today, env, feed, settingsFile, statsFile,
                   alertSettings, alertState, chargerState, cachedData,
                   statsDate, handlers, manual, cur, delivered, restarts,
                   alertLog, lastFlip, mustStayOn>>
    /\ UNCHANGED <<archive, dailyStats, peakDischargeState, summaryPending,
                   summaries, horizon>>
    /\ UNCHANGED <<disk, summaryTimer>>

(***************************************************************************)
(* sendDailySummaryReport, called by the 8 PM timer and by POST            *)
(* /settings/daily-summary/test, up to its await of sgMail.send.  No       *)
(* request assigns alertSettings.dailySummary.enabled, which starts true.  *)
(***************************************************************************)
DailySummary ==
    /\ cur = 0
    /\ summaries < MaxSummaries
    /\ summaries' = summaries + 1
    /\ IF alertSettings.enabled /\ alertSettings.sendgridApiKey
       THEN /\ summaryPending < MaxInFlight
            /\ summaryPending' = summaryPending + 1
            /\ io' = [ Ran("summary", NaN, "on") EXCEPT !.sent = TRUE ]
       ELSE /\ summaryPending' = summaryPending
            /\ io' = Ran("summary", NaN, "off")
    /\ UNCHANGED <<now, today, env, feed, settingsFile, statsFile,
                   alertSettings, alertState, chargerState, alertHistory,
                   cachedData, statsDate, handlers, manual, cur, delivered,
                   restarts, alertLog, lastFlip, mustStayOn>>
    /\ UNCHANGED <<archive, dailyStats, peakDischargeState, peakPending,
                   horizon>>
    /\ UNCHANGED <<disk, summaryTimer>>

\* sgMail.send returns or rejects; only a summary that was sent is recorded.
SummaryDone(outcome) ==
    /\ cur = 0
    /\ summaryPending > 0
    /\ summaryPending' = summaryPending - 1
    /\ alertHistory' = IF outcome = "ok"
                       THEN PushHistory(alertHistory,
                                        Entry("daily_summary", NaN, now))
                       ELSE alertHistory
    /\ io' = Ran("summary-mail", NaN, outcome)
    /\ UNCHANGED <<now, today, env, feed, settingsFile, statsFile,
                   alertSettings, alertState, chargerState, cachedData,
                   statsDate, handlers, manual, cur, delivered, restarts,
                   alertLog, lastFlip, mustStayOn>>
    /\ UNCHANGED <<archive, dailyStats, peakDischargeState, peakPending,
                   summaries, horizon>>
    /\ UNCHANGED <<disk, summaryTimer>>

\* The clock advances by d seconds.
Elapse(d) ==
    /\ cur = 0
    /\ now + d <= horizon
    /\ now' = now + d
    /\ io' = Quiet
    /\ UNCHANGED <<today, env, feed, settingsFile, statsFile, alertSettings,
                   alertState, chargerState, alertHistory, cachedData,
                   statsDate, handlers, manual, cur, delivered, restarts,
                   alertLog, lastFlip, mustStayOn>>
    /\ UNCHANGED <<archive, dailyStats, peakDischargeState, peakPending,
                   summaryPending, summaries>>
    /\ horizon' = horizon
    /\ UNCHANGED <<disk, summaryTimer>>

(***************************************************************************)
(* The callback that scheduleNextDailySummary hands to setTimeout: it      *)
(* awaits sendDailySummaryReport and then calls scheduleNextDailySummary.  *)
(* A report that returns without awaiting (alerts disabled, or no SendGrid *)
(* key) lets the callback re-arm in the same step.                         *)
(***************************************************************************)
SummaryTimer(i) ==
    /\ cur = 0
    /\ i \in DOMAIN summaryTimer.armed
    /\ summaryTimer.armed[i] <= now
    /\ LET rest  == [ j \in 1 .. Len(summaryTimer.armed) - 1 |->
                        IF j < i THEN summaryTimer.armed[j]
                        ELSE summaryTimer.armed[j + 1] ]
           fired == [ summaryTimer EXCEPT !.armed = rest,
                                          !.fired = now \div 86400 ]
       IN  IF alertSettings.enabled /\ alertSettings.sendgridApiKey
           THEN /\ summaryTimer' = [ fired EXCEPT !.sending = @ + 1 ]
                /\ io' = [ Ran("summary-timer", NaN, "on")
                             EXCEPT !.sent = TRUE, !.at = now ]
           ELSE /\ summaryTimer' = ScheduleNextDailySummary(fired, now)
                /\ io' = [ Ran("summary-timer", NaN, "off")
                             EXCEPT !.at = now ]
    /\ UNCHANGED <<now, today, env, feed, settingsFile, statsFile,
                   alertSettings, alertState, chargerState, alertHistory,
                   cachedData, statsDate, handlers, manual, cur, delivered,
                   restarts, alertLog, lastFlip, mustStayOn>>
    /\ UNCHANGED <<archive, dailyStats, others, disk>>

\* sgMail.send of the callback's report returns or rejects (the report
\* catches the rejection), and the callback re-arms.
SummaryTimerDone(outcome) ==
    /\ cur = 0
    /\ summaryTimer.sending > 0
    /\ summaryTimer' =
         ScheduleNextDailySummary([ summaryTimer EXCEPT !.sending = @ - 1 ],
                                  now)
    /\ alertHistory' = IF outcome = "ok"
                       THEN PushHistory(alertHistory,
                                        Entry("daily_summary", NaN, now))
                       ELSE alertHistory
    /\ io' = [ Ran("summary-timer-mail", NaN, outcome) EXCEPT !.at = now ]
    /\ UNCHANGED <<now, today, env, feed, settingsFile, statsFile,
                   alertSettings, alertState, chargerState, cachedData,
                   statsDate, handlers, manual, cur, delivered, restarts,
                   alertLog, lastFlip, mustStayOn>>
    /\ UNCHANGED <<archive, dailyStats, others, disk>>

\* The clock advances by d seconds; an armed timer runs at most MaxLate
\* seconds after it is due.
TimerElapse(d) ==
    /\ \A i \in DOMAIN summaryTimer.armed :
          now + d <= summaryTimer.armed[i] + MaxLate
    /\ Elapse(d)

\* The steps of a SOC handler once it has been started.
HandlerStep ==
    \/ \E h \in Slots : AlertsLow(h)
    \/ \E h \in Slots : AlertsRecovered(h)
    \/ \E h \in Slots : MailDone(h)
    \/ \E h \in Slots : ControlCharger(h)
    \/ \E h \in Slots, outcome \in Outcomes : FetchDone(h, outcome)

(***************************************************************************)
(* Spec: one process run of the control loop, the manual trigger, the      *)
(* settings endpoint and the clock.                                        *)
(***************************************************************************)
Next ==
    \/ \E raw \in SocPayloads : MqttSoc(raw)
    \/ \E raw \in TempPayloads : MqttTemp(raw)
    \/ \E soc \in SocPayloads : PostTestThreshold(soc)
    \/ HandlerStep
    \/ \E action \in ManualActions : ManualTrigger(action)
    \/ \E outcome \in Outcomes : ManualFetchDone(outcome)
    \/ ManualMailDone
    \/ \E body \in ChargerBodies : PostSettings(body)
    \/ Tick

Spec == Init /\ [][Next]_vars

(***************************************************************************)
(* The server once POST /settings/alerts has switched charger control on   *)
(* and the environment provides both API keys.                             *)
(***************************************************************************)
BothKeys  == [ sendgrid |-> TRUE, ifttt |-> TRUE ]
ControlOn == [ enabled |-> "keep", ccEnabled |-> "on",
               sendgridApiKey |-> FALSE, iftttWebhookKey |-> FALSE,
               lowThreshold |-> Absent, highThreshold |-> Absent ]

Configured(script) ==
    /\ Fresh(BothKeys, script)
    /\ alertSettings = UpdatedSettings(InitAlertSettings(BothKeys), ControlOn)
    /\ settingsFile = SavedSettings(alertSettings)

(***************************************************************************)
(* SpecLoop: the control loop fed with a sequence of SOC samples that      *)
(* oscillate between the two charger thresholds.                           *)
(***************************************************************************)
LoopFeeds == [ 1 .. MaxFeed -> {DefaultCcLow, DefaultCcHigh} ]

InitLoop == \E script \in LoopFeeds : Configured(script)

NextLoop ==
    \/ MqttFeed
    \/ HandlerStep
    \/ Tick

SpecLoop == InitLoop /\ [][NextLoop]_vars

(***************************************************************************)
(* SpecPersist: the control loop, the save timer, the calendar and process *)
(* restarts (graceful through SIGINT, or killed).                          *)
(***************************************************************************)
InitPersist == Configured(<< >>)

NextPersist ==
    \/ \E raw \in SocPayloads : MqttSoc(raw)
    \/ HandlerStep
    \/ SaveTimer
    \/ NewDay
    \/ \E graceful \in BOOLEAN : Restart(graceful)
    \/ Tick

SpecPersist == InitPersist /\ [][NextPersist]_vars

(***************************************************************************)
(* SpecAlerts: the alert engine fed with a sequence of SOC samples, with   *)
(* overlapping handlers and changes of the alert settings.                 *)
(***************************************************************************)
ExampleFeed == <<60, 40, 35, 45, 85, 30>>
AlertFeeds  == [ 1 .. MaxFeed -> SocValues ] \cup {ExampleFeed}

InitAlerts ==
    /\ \E e \in Environments, script \in AlertFeeds : Fresh(e, script)
    /\ settingsFile = NoFile
    /\ alertSettings = InitAlertSettings(env)

NextAlerts ==
    \/ MqttFeed
    \/ \E h \in Slots : AlertsLow(h)
    \/ \E h \in Slots : AlertsRecovered(h)
    \/ \E h \in Slots : MailDone(h)
    \/ \E h \in Slots : ControlCharger(h)
    \/ \E body \in AlertBodies : PostSettings(body)

SpecAlerts == InitAlerts /\ [][NextAlerts]_vars

(***************************************************************************)
(* SpecHistory: the three writers of alertHistory (battery alerts, the     *)
(* peak-discharge alert, the daily summary) on a log that already holds    *)
(* up to 50 alerts.  The log at the start is one that earlier battery      *)
(* alerts leave: low and recovered in turn, one second apart, the newest   *)
(* in front; alertState is the state after the newest of them.             *)
(***************************************************************************)
EarlierAlerts(n, t) ==
    [ i \in 1 .. n |->
        IF (n - i) % 2 = 0 THEN Entry("low", DefaultCcLow, t - i)
                           ELSE Entry("recovered", DefaultCcHigh, t - i) ]

\* Battery power payloads: discharging (-51 W) and not (-50 W).
BatteryPayloads == {0 - DischargeBelow - 1, 0 - DischargeBelow}

InitHistory ==
    /\ \E e \in Environments : Started(e, << >>)
    /\ now = TickLen
    /\ horizon = TickLen + PeakMinutes * 60
    /\ disk = NoBackups
    /\ summaryTimer = InitSummaryTimer(now)
    /\ \E n \in {0, HistoryCap - 1, HistoryCap} :
          alertHistory = EarlierAlerts(n, now)
    /\ alertState = IF alertHistory = << >> THEN InitAlertState
                    ELSE [ belowThreshold |-> alertHistory[1].type = "low",
                           lastAlertType |-> alertHistory[1].type ]
    /\ cachedData = [ k \in Topics |-> NoEntry ]
    /\ historicalData = InitHistoricalData
    /\ historyFile = NoFile
    /\ dailyStats = InitDailyStats
    /\ settingsFile = NoFile
    /\ alertSettings = InitAlertSettings(env)

NextHistory ==
    \/ \E raw \in {DefaultCcLow, DefaultCcHigh} : MqttSoc(raw)
    \/ \E h \in Slots : AlertsLow(h)
    \/ \E h \in Slots : AlertsRecovered(h)
    \/ \E h \in Slots : MailDone(h)
    \/ \E h \in Slots : ControlCharger(h)
    \/ \E raw \in BatteryPayloads : MqttBattery(raw, TRUE)
    \/ PeakMailDone
    \/ DailySummary
    \/ \E outcome \in {"ok", "throw"} : SummaryDone(outcome)
    \/ Elapse(PeakMinutes * 60)

SpecHistory == InitHistory /\ [][NextHistory]_vars

(***************************************************************************)
(* SpecArchive: messages of two archived topics and of a topic that is not *)
(* tracked, numeric or not, at any rate; the save timer; a restart, after  *)
(* the history file was perhaps damaged.  The clock moves by half an       *)
(* archive interval or by an interval less one second.                     *)
(***************************************************************************)
InitArchive ==
    /\ Started([ sendgrid |-> FALSE, ifttt |-> FALSE ], << >>)
    /\ now = TickLen
    /\ horizon = TickLen + ArchiveInterval + ArchiveInterval \div 2
    /\ disk = NoBackups
    /\ summaryTimer = InitSummaryTimer(now)
    /\ alertState = InitAlertState
    /\ alertHistory = << >>
    /\ cachedData = [ k \in Topics |-> NoEntry ]
    /\ historicalData = InitHistoricalData
    /\ historyFile = NoFile
    /\ dailyStats = InitDailyStats
    /\ settingsFile = NoFile
    /\ alertSettings = InitAlertSettings(env)

NextArchive ==
    \/ \E raw \in {100, Garbage} : MqttData(PvTopic, raw)
    \/ MqttData(OtherTopic, Garbage)
    \/ SaveTimer
    \/ \E graceful \in BOOLEAN : Restart(graceful)
    \/ \E kind \in {"none", "text", "values", "null"} : DamageFile(kind)
    \/ Elapse(ArchiveInterval \div 2)
    \/ Elapse(ArchiveInterval - 1)

SpecArchive == InitArchive /\ [][NextArchive]_vars

(***************************************************************************)
(* SpecCap: the process has started on the archive of a week of PV         *)
(* samples, one point per minute: the series loaded from the file holds    *)
(* 9,999 or 10,000 points when the next samples arrive.                    *)
(***************************************************************************)
MinuteSeries(n) ==
    [ i \in 1 .. n |-> [ timestamp |-> i * ArchiveInterval, day |-> 0,
                         value |-> 100 ] ]

InitCap ==
    /\ Started([ sendgrid |-> FALSE, ifttt |-> FALSE ], << >>)
    /\ \E n \in {SeriesCap - 1, SeriesCap} :
          /\ historicalData = [ InitHistoricalData EXCEPT
                                  !.series[PvTopic] = MinuteSeries(n) ]
          /\ now = (n + 1) * ArchiveInterval
    /\ horizon = (SeriesCap + 2) * ArchiveInterval
    /\ disk = NoBackups
    /\ summaryTimer = InitSummaryTimer(now)
    /\ alertState = InitAlertState
    /\ alertHistory = << >>
    /\ cachedData = [ k \in Topics |-> NoEntry ]
    /\ historyFile = SavedHistory(historicalData)
    /\ dailyStats = InitDailyStats
    /\ settingsFile = NoFile
    /\ alertSettings = InitAlertSettings(env)

NextCap ==
    \/ \E raw \in {200, Garbage} : MqttData(PvTopic, raw)
    \/ MqttData(LoadTopic, 200)
    \/ SaveTimer
    \/ Elapse(ArchiveInterval)

SpecCap == InitCap /\ [][NextCap]_vars

(***************************************************************************)
(* SpecPrune: the process has started on an archive whose PV points are    *)
(* about a year old (loadHistoricalData has pruned it); the clock passes   *)
(* the age of 365 days of the oldest points.                               *)
(***************************************************************************)
InitPrune ==
    /\ Started([ sendgrid |-> FALSE, ifttt |-> FALSE ], << >>)
    /\ now = Retention + ArchiveInterval \div 2
    /\ horizon = Retention + 3 * ArchiveInterval
    /\ disk = NoBackups
    /\ summaryTimer = InitSummaryTimer(now)
    /\ historicalData = [ InitHistoricalData EXCEPT
                            !.series[PvTopic] = MinuteSeries(3) ]
    /\ historyFile = SavedHistory(historicalData)
    /\ alertState = InitAlertState
    /\ alertHistory = << >>
    /\ cachedData = [ k \in Topics |-> NoEntry ]
    /\ dailyStats = InitDailyStats
    /\ settingsFile = NoFile
    /\ alertSettings = InitAlertSettings(env)

NextPrune ==
    \/ \E raw \in {200, Garbage} : MqttData(PvTopic, raw)
    \/ SaveTimer
    \/ Restart(TRUE)
    \/ Elapse(ArchiveInterval \div 2)

SpecPrune == InitPrune /\ [][NextPrune]_vars

(***************************************************************************)
(* SpecEnergy: the energy counters, the PV power samples and the dashboard *)
(* functions that read them; the date may change and an hour may pass      *)
(* between two PV samples (2000 W for an hour: 2 kWh).                     *)
(***************************************************************************)
InitEnergy ==
    /\ Started([ sendgrid |-> FALSE, ifttt |-> FALSE ], << >>)
    /\ now = TickLen
    /\ horizon = TickLen + 3600
    /\ disk = NoBackups
    /\ summaryTimer = InitSummaryTimer(now)
    /\ historicalData = InitHistoricalData
    /\ historyFile = NoFile
    /\ alertState = InitAlertState
    /\ alertHistory = << >>
    /\ cachedData = [ k \in Topics |-> NoEntry ]
    /\ dailyStats = InitDailyStats
    /\ settingsFile = NoFile
    /\ alertSettings = InitAlertSettings(env)

NextEnergy ==
    \/ \E topic \in EnergyTopics, raw \in {10, Garbage} :
          MqttData(topic, raw)
    \/ MqttData(PvTopic, 2000)
    \/ GetDailyEnergyProduced
    \/ GetDailyEnergyConsumed
    \/ NewDay
    \/ Elapse(3600)

SpecEnergy == InitEnergy /\ [][NextEnergy]_vars

(***************************************************************************)
(* SpecBalance: getPowerBalance on every combination of cached solar, load *)
(* and battery power (tenths of a watt: 1000 W, 1000.4 W, 1000.5 W, text;  *)
(* 600 W, 600.1 W, 1000 W, 1072.4 W, 5800 W, text; 200 W, 0 W, -200 W,     *)
(* text) and getBatteryRuntime on these with a cached SOC (50, 10, text)   *)
(* and battery voltage (none, 0, 52); the manual trigger switches the      *)
(* charger state.                                                          *)
(***************************************************************************)
InitBalance ==
    /\ Started(BothKeys, << >>)
    /\ now = TickLen
    /\ horizon = now
    /\ disk = NoBackups
    /\ summaryTimer = InitSummaryTimer(now)
    /\ \E solar \in {10000, 10004, 10005, Garbage},
          load \in {6000, 6001, 10000, 10724, 58000, Garbage},
          battery \in {2000, 0, 0 - 2000, Garbage},
          soc \in {50, 10, Garbage}, voltage \in {Absent, 0, 52} :
          cachedData = [ k \in Topics \cup RuntimeTopics |->
                          IF k \in {PvTopic, LoadTopic, BatteryTopic, SocTopic}
                          THEN [ value |-> CASE k = PvTopic -> solar
                                             [] k = LoadTopic -> load
                                             [] k = BatteryTopic -> battery
                                             [] k = SocTopic -> soc,
                                 timestamp |-> now ]
                          ELSE IF k = VoltageTopic /\ voltage # Absent
                          THEN [ value |-> voltage, timestamp |-> now ]
                          ELSE NoEntry ]
    /\ historicalData = InitHistoricalData
    /\ historyFile = NoFile
    /\ alertState = InitAlertState
    /\ alertHistory = << >>
    /\ dailyStats = InitDailyStats
    /\ alertSettings = UpdatedSettings(InitAlertSettings(BothKeys), ControlOn)
    /\ settingsFile = SavedSettings(alertSettings)

NextBalance ==
    \/ GetPowerBalance
    \/ GetBatteryRuntime
    \/ \E action \in {"on", "off"} : ManualTrigger(action)
    \/ ManualFetchDone("ok")
    \/ ManualMailDone

SpecBalance == InitBalance /\ [][NextBalance]_vars

(***************************************************************************)
(* SpecPeak: PV power samples (0 W, 1500.4 W, 2000 W, in tenths of a watt) *)
(* half an hour apart or closer, and getPeakPerformance over all of the    *)
(* archive, over the last hour and over the last half hour.                *)
(***************************************************************************)
InitPeak ==
    /\ Started([ sendgrid |-> FALSE, ifttt |-> FALSE ], << >>)
    /\ now = TickLen
    /\ horizon = TickLen + 3 * 1800
    /\ disk = NoBackups
    /\ summaryTimer = InitSummaryTimer(now)
    /\ alertState = InitAlertState
    /\ alertHistory = << >>
    /\ cachedData = [ k \in Topics |-> NoEntry ]
    /\ historicalData = InitHistoricalData
    /\ historyFile = NoFile
    /\ dailyStats = InitDailyStats
    /\ settingsFile = NoFile
    /\ alertSettings = InitAlertSettings(env)

NextPeak ==
    \/ \E raw \in {0, 15004, 20000} : MqttData(PvTopic, raw)
    \/ \E range \in {Null, 3600, 1800} : GetPeakPerformance(range)
    \/ Elapse(1800)

SpecPeak == InitPeak /\ [][NextPeak]_vars

(***************************************************************************)
(* SpecDischarge: battery power samples (-51 W, -50 W, text) inside and    *)
(* outside the peak window, 29, 30 (less one second or not) or 31 minutes  *)
(* after an earlier one or at the same time, for a little over an hour.    *)
(* The process has started on a settings file that *)
(* holds 10, 30 or 45 as peakDischargeAlert.durationMinutes.               *)
(***************************************************************************)
InitDischarge ==
    /\ \E sendgrid \in BOOLEAN :
          Started([ sendgrid |-> sendgrid, ifttt |-> FALSE ], << >>)
    /\ now = TickLen
    /\ horizon = TickLen + (2 * PeakMinutes + 1) * 60
    /\ disk = NoBackups
    /\ summaryTimer = InitSummaryTimer(now)
    /\ \E d \in {10, DefaultPeakMinutes, 45} :
          settingsFile = [ SavedSettings(InitAlertSettings(env))
                             EXCEPT !.peak.durationMinutes = d ]
    /\ alertSettings = LoadedSettings(settingsFile, env)
    /\ alertState = InitAlertState
    /\ alertHistory = << >>
    /\ cachedData = [ k \in Topics |-> NoEntry ]
    /\ historicalData = InitHistoricalData
    /\ historyFile = NoFile
    /\ dailyStats = InitDailyStats

NextDischarge ==
    \/ \E raw \in BatteryPayloads \cup {Garbage}, inPeak \in BOOLEAN :
          MqttBattery(raw, inPeak)
    \/ PeakMailDone
    \/ \E d \in {PeakMinutes * 60 - 60, PeakMinutes * 60 - 1,
                  PeakMinutes * 60, PeakMinutes * 60 + 60} : Elapse(d)

SpecDischarge == InitDischarge /\ [][NextDischarge]_vars

(***************************************************************************)
(* SpecSeason: a discharging battery power sample in every month of the    *)
(* year, at the minutes around the ends of the three windows (9:29 to      *)
(* 10:00 and 14:00 to 15:01), at noon and around midnight, and up to 59    *)
(* seconds later.                                                          *)
(***************************************************************************)
Minutes ==
    {0, 9 * 60 + 29, 9 * 60 + 30, 9 * 60 + 44, 9 * 60 + 45, 9 * 60 + 59,
     10 * 60, 12 * 60, 14 * 60, 14 * 60 + 1, 14 * 60 + 15, 14 * 60 + 16,
     14 * 60 + 30, 14 * 60 + 31, 15 * 60, 15 * 60 + 1, 23 * 60 + 59}

InitSeason ==
    /\ Started([ sendgrid |-> FALSE, ifttt |-> FALSE ], << >>)
    /\ \E month \in 0 .. 11, minute \in Minutes :
          now = (month * 31 + 14) * 86400 + minute * 60
    /\ horizon = now + 59
    /\ disk = NoBackups
    /\ summaryTimer = InitSummaryTimer(now)
    /\ alertState = InitAlertState
    /\ alertHistory = << >>
    /\ cachedData = [ k \in Topics |-> NoEntry ]
    /\ historicalData = InitHistoricalData
    /\ historyFile = NoFile
    /\ dailyStats = InitDailyStats
    /\ settingsFile = NoFile
    /\ alertSettings = InitAlertSettings(env)

NextSeason ==
    \/ MqttBattery(0 - DischargeBelow - 1, IsWithinPeakHours(now))
    \/ Elapse(59)

SpecSeason == InitSeason /\ [][NextSeason]_vars

(***************************************************************************)
(* SpecBackup: backup and restore runs on a backups directory that holds   *)
(* 0, 29, 30 or 32 earlier backups, one second apart (listed oldest first  *)
(* or, the longer lists, newest first), with package.json (or, beside 32   *)
(* backups, without it) and an SSL certificate; between the runs the       *)
(* settings                                                                *)
(* are changed through the dashboard, the save timer writes its two files  *)
(* and the clock moves by a second.  The newest or the oldest backup is    *)
(* the one restored.                                                       *)
(***************************************************************************)
EarlierBackups(n) ==
    [ i \in 1 .. n |->
        [ prefix |-> "backup_", stamp |-> i, mtime |-> i,
          files |-> [ f \in { BackupFiles[j] : j \in 1 .. Len(BackupFiles) }
                        |-> IF f \in {"package.json", ".env"}
                            THEN [ exists |-> TRUE, version |-> 0 ]
                            ELSE NoFile ],
          info |-> TRUE ] ]

\* The calls of performRestore after which a run is cut short: before the
\* first, after all but one copy of the current files, after one write,
\* not at all.
FailurePoints ==
    LET saves == Len(SelectSeq(BackupFiles, LAMBDA f : CurrentFile(f).exists))
    IN  {0, saves, saves + 2, 1 + 2 * Len(BackupFiles)}

InitBackup ==
    /\ Started([ sendgrid |-> FALSE, ifttt |-> FALSE ], << >>)
    /\ now = TickLen
    /\ summaryTimer = InitSummaryTimer(now)
    /\ horizon = TickLen + 1
    /\ \E n \in {0, KeepCount - 1, KeepCount, KeepCount + 2},
          newestFirst \in BOOLEAN, package \in BOOLEAN :
          /\ newestFirst <=> n >= KeepCount
          /\ ~package => n = KeepCount + 2
          /\ disk = [ files |-> [ NoBackups.files EXCEPT
                                    !["package.json"] =
                                        IF package THEN @ ELSE NoFile,
                                    !["ssl/server.crt"] =
                                        [ exists |-> TRUE, version |-> 1 ] ],
                      dir   |-> IF newestFirst
                                THEN [ i \in 1 .. n |->
                                         EarlierBackups(n)[n + 1 - i] ]
                                ELSE EarlierBackups(n) ]
    /\ historicalData = InitHistoricalData
    /\ historyFile = NoFile
    /\ alertState = InitAlertState
    /\ alertHistory = << >>
    /\ cachedData = [ k \in Topics |-> NoEntry ]
    /\ dailyStats = InitDailyStats
    /\ settingsFile = NoFile
    /\ alertSettings = InitAlertSettings(env)

NextBackup ==
    \/ BackupRun
    \/ \E b \in DOMAIN disk.dir, completed \in FailurePoints :
          /\ IsBackup(disk.dir[b])
          /\ \/ \A i \in DOMAIN disk.dir :
                   IsBackup(disk.dir[i]) => disk.dir[i].mtime <= disk.dir[b].mtime
             \/ \A i \in DOMAIN disk.dir :
                   IsBackup(disk.dir[i]) => disk.dir[i].mtime >= disk.dir[b].mtime
          /\ RestoreRun(b, completed)
    \/ PostSettings([ ControlOn EXCEPT !.enabled = "off" ])
    \/ SaveTimer
    \/ Elapse(1)

SpecBackup == InitBackup /\ [][NextBackup]_vars

(***************************************************************************)
(* SpecStats: messages of the four energy counters and of the PV power,    *)
(* numeric or not, in any order, on one day or the next, in one hour or    *)
(* the next.                                                               *)
(***************************************************************************)
InitStats ==
    /\ Started([ sendgrid |-> FALSE, ifttt |-> FALSE ], << >>)
    /\ now = TickLen
    /\ horizon = TickLen + 3600
    /\ disk = NoBackups
    /\ summaryTimer = InitSummaryTimer(now)
    /\ historicalData = InitHistoricalData
    /\ historyFile = NoFile
    /\ alertState = InitAlertState
    /\ alertHistory = << >>
    /\ cachedData = [ k \in {PvEnergyTopic} |-> NoEntry ]
    /\ dailyStats = InitDailyStats
    /\ settingsFile = NoFile
    /\ alertSettings = InitAlertSettings(env)

NextStats ==
    \/ \E topic \in EnergyTopics, raw \in {10, Garbage} : MqttData(topic, raw)
    \/ \E raw \in {1000, Garbage} : MqttData(PvTopic, raw)
    \/ NewDay
    \/ Elapse(3600)

SpecStats == InitStats /\ [][NextStats]_vars

(***************************************************************************)
(* SpecIngest: SOC messages at the two charger thresholds, whose handlers  *)
(* wait for the mail service and for IFTTT (which answers, refuses or      *)
(* fails, at any time or never), and PV power messages, numeric or not,    *)
(* that arrive in between; the clock moves by an archive interval, once.   *)
(***************************************************************************)
InitIngest ==
    /\ Started(BothKeys, << >>)
    /\ now = TickLen
    /\ horizon = TickLen + ArchiveInterval
    /\ disk = NoBackups
    /\ summaryTimer = InitSummaryTimer(now)
    /\ alertState = InitAlertState
    /\ alertHistory = << >>
    /\ cachedData = [ k \in Topics |-> NoEntry ]
    /\ historicalData = InitHistoricalData
    /\ historyFile = NoFile
    /\ dailyStats = InitDailyStats
    /\ alertSettings = UpdatedSettings(InitAlertSettings(BothKeys), ControlOn)
    /\ settingsFile = SavedSettings(alertSettings)

NextIngest ==
    \/ \E raw \in {DefaultCcLow, DefaultCcHigh} : MqttSoc(raw)
    \/ HandlerStep
    \/ \E raw \in {100, Garbage} : MqttData(PvTopic, raw)
    \/ Elapse(ArchiveInterval)

SpecIngest == InitIngest /\ [][NextIngest]_vars

(***************************************************************************)
(* Properties                                                              *)
(***************************************************************************)
CachedTemp   == cachedData[TempTopic].value
TempIsNumber == CachedTemp \notin {Garbage, Absent}
CcSettings   == alertSettings.chargerControl
CcConfigured == CcSettings.enabled /\ CcSettings.iftttWebhookKey

\* Handler h holds the thread and its next step is controlBatteryCharger.
Evaluating(h) == cur = h /\ handlers[h].pc = "charger"

C4_FailureLeavesState ==
    [][ (io'.op = "fetch" /\ io'.arg \in {"notok", "throw"})
          => /\ chargerState' = chargerState
             /\ io'.mail \in {Subjects.failed, Subjects.error}
             /\ io'.mail \notin {Subjects.activated, Subjects.deactivated} ]_vars

\* A battery_low call was answered with a non-success status: still OFF.
C4_FailedTurnOn ==
    /\ io.op = "fetch" /\ io.arg = "notok"
    /\ io.mail = Subjects.failed
    /\ io.soc = DefaultCcLow
    /\ chargerState = InitChargerState

C7_ManualBypassesGuards ==
    [][ (io'.op = "manual" /\ io'.arg \in {"on", "off"} /\ CcConfigured)
          => io'.trigger = (IF io'.arg = "on" THEN "battery_low"
                                              ELSE "battery_charged") ]_vars

\* A manual 'on' was sent inside the cooldown, with the battery too hot and
\* the charger already ON.
C7_ManualInsideGuards ==
    /\ io.op = "manual" /\ io.arg = "on" /\ io.trigger = "battery_low"
    /\ chargerState.isOn
    /\ chargerState.lastActionTime = now
    /\ TempIsNumber /\ CachedTemp > CcSettings.maxTemp

\* C2: any two isOn changes committed by the control loop are at least the
\* cooldown apart (by the lastActionTime they record or by the clock at
\* commit), and an evaluation made less than the cooldown after lastActionTime
\* sends no trigger and leaves chargerState unchanged.
C2_CooldownBetweenChanges ==
    [][ /\ ( /\ io'.op = "fetch"
             /\ chargerState'.isOn # chargerState.isOn
             /\ lastFlip.at # Null )
            => ( \/ chargerState'.lastActionTime - lastFlip.at >= Cooldown
                 \/ now - lastFlip.wall >= Cooldown )
        /\ \A h \in Slots :
             ( /\ Evaluating(h)
               /\ Truthy(chargerState.lastActionTime)
               /\ now - chargerState.lastActionTime < Cooldown )
               => (io'.trigger = "none" /\ chargerState' = chargerState)
      ]_vars

\* C3: a restart that finds isOn = true persisted restores isOn = true,
\* whatever the date, and from then on the control loop sends no battery_low
\* until it has committed an ON -> OFF transition.
C3_NoRetriggerAfterRestart ==
    [][ /\ ( /\ restarts' # restarts
             /\ statsFile'.exists
             /\ statsFile'.chargerState.isOn ) => chargerState'.isOn
        /\ mustStayOn => io'.trigger # "battery_low" ]_vars

\* After a restart that found isOn = true persisted, and with no OFF since,
\* the control loop has sent battery_low again.
C3_Retriggered ==
    /\ restarts = 1
    /\ mustStayOn
    /\ io.op = "control" /\ io.trigger = "battery_low"

\* C8: the step that commits a successful automatic trigger also writes the
\* new chargerState to the stats file, so a restart later on the same day
\* comes back with the isOn value the process had when it stopped.
C8_PersistedWithTransition ==
    [][ /\ (io'.op = "fetch" /\ io'.commit)
            => (statsFile'.exists /\ statsFile'.chargerState = chargerState')
        /\ (restarts' # restarts /\ today = 0 /\ lastFlip.at # Null)
            => chargerState'.isOn = chargerState.isOn ]_vars

\* C9: within one process run the alerts emitted by checkBatteryAlerts
\* alternate, starting with 'low': never two 'low' without a 'recovered'
\* between them, and a 'recovered' only after a 'low'.
C9_AlertsAlternate ==
    \A i \in 1 .. Len(alertLog) :
        alertLog[i].type = IF i % 2 = 1 THEN "low" ELSE "recovered"

\* low, recovered, low were emitted by three samples whose handlers overlap:
\* two of them are still waiting for their mail to be sent.
C9_OverlappingHandlers ==
    /\ Len(alertLog) = 3
    /\ handlers[1].pc = "await_mail_low"
    /\ handlers[2].pc = "await_mail_rec"

AllDelivered ==
    delivered = Len(feed) /\ \A h \in Slots : handlers[h].pc = "idle"

ExampleAlerts ==
    << [ type |-> "low", value |-> 40 ],
       [ type |-> "recovered", value |-> 85 ],
       [ type |-> "low", value |-> 30 ] >>

\* C10: with alerts enabled and a numeric sample, checkBatteryAlerts goes to
\* BelowThreshold (and emits 'low') exactly when the sample is below
\* lowThreshold while not below, and back to Normal (and emits 'recovered')
\* exactly when the sample is above highThreshold while below; with the
\* default thresholds 50 / 80 the samples 60, 40, 35, 45, 85, 30 give exactly
\* 'low' at 40, 'recovered' at 85 and 'low' at 30.
C10_AlertStateMachine ==
    /\ [][ (io'.op = "alerts-low" /\ io'.arg = "on") =>
              LET dropped == ~alertState.belowThreshold
                             /\ io'.soc < alertSettings.lowThreshold
              IN  /\ (alertState'.belowThreshold /\ ~alertState.belowThreshold)
                        <=> dropped
                  /\ (io'.mail = Subjects.low) <=> dropped
                  /\ ~dropped => alertState' = alertState ]_vars
    /\ [][ (io'.op = "alerts-recovered") =>
              LET recovers == alertState.belowThreshold
                              /\ io'.soc > alertSettings.highThreshold
              IN  /\ (~alertState'.belowThreshold /\ alertState.belowThreshold)
                        <=> recovers
                  /\ (io'.mail = Subjects.recovered) <=> recovers
                  /\ ~recovers => alertState' = alertState ]_vars
    /\ []( (feed = ExampleFeed /\ settingsFile = NoFile /\ AllDelivered)
            => alertLog = ExampleAlerts )

\* The example sequence has been handled to the end under the default
\* settings: 35 did not alert again and 45 did not recover.
C10_ExampleDone ==
    /\ feed = ExampleFeed
    /\ settingsFile = NoFile
    /\ AllDelivered
    /\ alertLog = ExampleAlerts
    /\ alertState.belowThreshold

\* Handler h holds the thread and its next step is the entry of
\* checkBatteryAlerts.
EnteringAlerts(h) == cur = h /\ handlers[h].pc = "alerts"

NewestFirst(hist) ==
    \A i \in 1 .. Len(hist), j \in 1 .. Len(hist) :
        i < j => hist[i].at >= hist[j].at

\* The step records an alert: a battery alert, a peak-discharge alert whose
\* notification has returned (or was not sent), a daily summary that was sent.
Recording ==
    \/ alertLog' # alertLog
    \/ peakPending' < peakPending
    \/ io'.op = "battery" /\ io'.arg = "alert" /\ ~io'.sent
    \/ summaryPending' < summaryPending /\ io'.arg = "ok"

(***************************************************************************)
(* C12: after any sequence of battery alerts, peak-discharge alerts and    *)
(* daily summaries alertHistory holds at most 50 entries, the newest       *)
(* first; an entry added to a full log removes the oldest (last) one and   *)
(* nothing else.                                                           *)
(***************************************************************************)
C12_HistoryBounded ==
    /\ [](Len(alertHistory) <= HistoryCap /\ NewestFirst(alertHistory))
    /\ [][ IF Recording
           THEN LET kept == IF Len(alertHistory) = HistoryCap
                            THEN SubSeq(alertHistory, 1, HistoryCap - 1)
                            ELSE alertHistory
                IN  /\ Len(alertHistory') = Len(kept) + 1
                    /\ alertHistory'[1].at = now
                    /\ Tail(alertHistory') = kept
           ELSE alertHistory' = alertHistory ]_vars

\* A full log has received entries of all three kinds.
C12_FullLogOfAllKinds ==
    /\ Len(alertHistory) = HistoryCap
    /\ \E i \in 1 .. 4 : alertHistory[i].type = "peak_discharge"
    /\ \E i \in 1 .. 4 : alertHistory[i].type = "daily_summary"
    /\ \E i \in 1 .. 4 : alertHistory[i].type = "recovered"
    /\ alertHistory[HistoryCap].at = TickLen - (HistoryCap - 3)

\* Consecutive points of a series are an archive interval apart.
Spaced(series) ==
    \A i \in 1 .. Len(series) - 1 :
        series[i + 1].timestamp - series[i].timestamp >= ArchiveInterval

(***************************************************************************)
(* C13: any two points that addHistoricalDataPoint appends to the series   *)
(* of a tracked metric are at least archiveInterval (60 s) apart, whatever *)
(* the rate of the samples.                                                *)
(***************************************************************************)
C13_OnePointPerInterval == \A k \in Archived : Spaced(historicalData.series[k])

\* Two points less than an interval apart, the later one archived after a
\* restart.
C13_TwoPointsInOneInterval ==
    /\ restarts = 1
    /\ Len(historicalData.series[PvTopic]) = 2
    /\ ~Spaced(historicalData.series[PvTopic])
    /\ lastArchivedTime[PvTopic] = historicalData.series[PvTopic][2].timestamp

(***************************************************************************)
(* C14: for every sequence of samples of a tracked metric, under every     *)
(* interleaving of message handlers, pruning and saving, the archived      *)
(* series of the metric is non-decreasing in timestamp.                    *)
(***************************************************************************)
C14_SeriesOrdered ==
    \A k \in Archived :
        \A i \in 1 .. Len(historicalData.series[k]) - 1 :
            historicalData.series[k][i].timestamp
                <= historicalData.series[k][i + 1].timestamp

\* The save timer has run on a series of two points archived an interval
\* apart, the second one after a non-numeric and a throttled sample.
C14_TwoPointsSaved ==
    /\ io.op = "save"
    /\ restarts = 0
    /\ Len(historicalData.series[PvTopic]) = 2
    /\ historicalData.series[PvTopic][1].timestamp = TickLen
    /\ historicalData.series[PvTopic][2].timestamp = TickLen + ArchiveInterval
    /\ historyFile = SavedHistory(historicalData)
    /\ cachedData[PvTopic].value = Garbage

(***************************************************************************)
(* C15: every archived series has at most 10,000 points in every reachable *)
(* state; appending to a series that holds 10,000 points evicts the first  *)
(* (oldest) point and nothing else.                                        *)
(***************************************************************************)
C15_SeriesCapped ==
    /\ [](\A k \in Archived : Len(historicalData.series[k]) <= SeriesCap)
    /\ [][ io'.op = "data" /\ lastArchivedTime' # lastArchivedTime =>
             \A k \in Archived :
                LET old   == historicalData.series[k]
                    point == [ timestamp |-> now, day |-> today,
                               value |-> io'.soc ]
                IN  historicalData'.series[k] =
                      IF k # io'.arg THEN old
                      ELSE IF Len(old) = SeriesCap THEN Tail(old) \o <<point>>
                      ELSE old \o <<point>> ]_vars

\* A full series has taken two more points: the two oldest are gone.
C15_TwoEvicted ==
    /\ Len(historicalData.series[PvTopic]) = SeriesCap
    /\ historicalData.series[PvTopic][1].timestamp = 3 * ArchiveInterval
    /\ historicalData.series[PvTopic][SeriesCap].timestamp
          = (SeriesCap + 2) * ArchiveInterval
    /\ historicalData.series[PvTopic][SeriesCap].value = 200
    /\ Len(historicalData.series[LoadTopic]) = 1

(***************************************************************************)
(* C16: pruneOldData removes from every series exactly the points with     *)
(* timestamp < now - retention (365 days) and keeps every other point in   *)
(* its original order.                                                     *)
(***************************************************************************)
C16_PruneExactlyOlder ==
    [][ io'.op = "save" =>
          \A k \in Archived :
             historicalData'.series[k] =
                SelectSeq(historicalData.series[k],
                          LAMBDA entry : ~(entry.timestamp < now - Retention))
      ]_vars

\* The save timer has pruned a point that was exactly 365 days old.
C16_BoundaryPointRemoved ==
    /\ io.op = "save"
    /\ now - Retention = ArchiveInterval
    /\ restarts = 0
    /\ Len(historicalData.series[PvTopic]) = 2
    /\ historicalData.series[PvTopic][1].timestamp = 2 * ArchiveInterval
    /\ historyFile.series[PvTopic] = historicalData.series[PvTopic]

(***************************************************************************)
(* C17: loadHistoricalData never fails the startup: with the history file  *)
(* missing or its content corrupt (not JSON, or JSON that is not a map of  *)
(* arrays) the store afterwards has an empty series for every tracked key  *)
(* and later samples are ingested normally.                                *)
(***************************************************************************)
C17_LoadRecovers ==
    /\ [][ /\ restarts' # restarts
           /\ ~historyFile'.exists \/ historyFile'.kind # "map"
           => historicalData' = InitHistoricalData ]_vars
    /\ [](io.op = "data" => io.skip # "throw")

\* After a start on a history file that holds the JSON text null, the
\* listener threw on a numeric PV sample: cached, but not archived.
C17_IngestionThrows ==
    /\ restarts = 1
    /\ historyFile.exists /\ historyFile.kind = "null"
    /\ io.op = "data" /\ io.arg = PvTopic /\ io.soc = 100
    /\ io.skip = "throw"
    /\ cachedData[PvTopic].value = 100
    /\ ~historicalData.isMap

(***************************************************************************)
(* C18: after every incoming message cachedData[topic] holds the value and *)
(* the timestamp of that message, whether or not the topic is tracked, the *)
(* value numeric, or the sample skipped by the archive throttle; the       *)
(* entries of the other topics are unchanged.                              *)
(***************************************************************************)
C18_CacheOverwritten ==
    [][ io'.op = "data" =>
          /\ cachedData'[io'.arg] = [ value |-> io'.soc, timestamp |-> now ]
          /\ \A k \in Topics \ {io'.arg} : cachedData'[k] = cachedData[k]
      ]_vars

\* A numeric PV sample that the throttle kept out of the archive is in the
\* cache, next to the earlier text sample of a topic that is not tracked.
C18_ThrottledSampleCached ==
    /\ io.op = "data" /\ io.arg = PvTopic /\ io.soc = 100
    /\ restarts = 0
    /\ now = TickLen + ArchiveInterval \div 2
    /\ cachedData[PvTopic] = [ value |-> 100, timestamp |-> now ]
    /\ cachedData[OtherTopic] = [ value |-> Garbage, timestamp |-> TickLen ]
    /\ Len(historicalData.series[PvTopic]) = 1
    /\ historicalData.series[PvTopic][1].timestamp = TickLen

(***************************************************************************)
(* C19: two calls of getDailyEnergyProduced (or getDailyEnergyConsumed)    *)
(* with no new sample, cache change or archive change in between return    *)
(* the same result, also when the first call sets the daily baseline.      *)
(***************************************************************************)
C19_EnergyIdempotent ==
    /\ [][ io.op = "produced" /\ io'.op = "produced" =>
             io'.result = io.result /\ io'.skip = io.skip ]_vars
    /\ [][ io.op = "consumed" /\ io'.op = "consumed" =>
             io'.result = io.result ]_vars

\* getDailyEnergyConsumed shows NaN on the new day's first non-numeric
\* counter value, for which it had set the baseline itself.
C19_ConsumedShowsNaN ==
    /\ io.op = "consumed" /\ io.result = NaN
    /\ today = 1 /\ statsDate = 1
    /\ cachedData[LoadEnergyTopic].value = Garbage
    /\ cachedData[PvEnergyTopic].value = 10
    /\ dailyStats.loadEnergyStart = NaN
    /\ dailyStats.pvEnergyStart = 10

\* What a call of getPowerBalance reads (the cache holds tenths of a watt):
\* whether the three inputs are numeric, their sum with the battery power
\* counted only while the charger is ON, and whether they are the inputs of
\* the example (1000 W solar, 600 W load, 200 W into the battery).
Inputs ==
    LET solar   == cachedData[PvTopic].value
        load    == cachedData[LoadTopic].value
        battery == cachedData[BatteryTopic].value
    IN  [ numeric |-> Garbage \notin {solar, load, battery},
          sum     |-> solar - load
                        + IF chargerState.isOn /\ battery > 0
                          THEN battery ELSE 0,
          example |-> solar = 10000 /\ load = 6000 /\ battery = 2000 ]

(***************************************************************************)
(* C20, as stated: getPowerBalance returns solar + (batteryPower if        *)
(* chargerState.isOn and batteryPower > 0, else 0) - load for all numeric  *)
(* inputs; with solar = 1000, load = 600, batteryPower = 200 it returns    *)
(* 400 when the charger is OFF and 600 when it is ON.                      *)
(***************************************************************************)
C20_PowerBalanceExact ==
    [][ io'.op = "balance" /\ Inputs.numeric =>
          /\ io'.skip = "none"
          /\ 10 * io'.result = Inputs.sum
          /\ Inputs.example =>
                io'.result = IF chargerState.isOn THEN 600 ELSE 400
      ]_vars

(***************************************************************************)
(* C20, amended: for all numeric inputs getPowerBalance returns that sum   *)
(* rounded to the nearest whole watt (a half rounds up); the two examples  *)
(* return 400 and 600.                                                     *)
(***************************************************************************)
C20_PowerBalanceRounded ==
    [][ io'.op = "balance" /\ Inputs.numeric =>
          /\ io'.skip = "none"
          /\ Inputs.sum - 5 < 10 * io'.result
          /\ 10 * io'.result <= Inputs.sum + 5
          /\ Inputs.example =>
                io'.result = IF chargerState.isOn THEN 600 ELSE 400
      ]_vars

\* The example with the charger ON: 1000 + 200 - 600.
C20_ExampleChargerOn ==
    /\ io.op = "balance" /\ io.result = 600
    /\ Inputs.example /\ chargerState.isOn

C22_PeakIsMaximum ==
    [][ io'.op = "peak" =>
          LET series == historicalData.series[PvTopic]
              points == { i \in 1 .. Len(series) :
                            \/ io'.soc = Null
                            \/ series[i].timestamp >= now - io'.soc }
          IN  points # {} =>
                \E i \in points :
                   /\ \A j \in points : series[j].value <= series[i].value
                   /\ io'.skip = "none"
                   /\ io'.at = series[i].timestamp
                   /\ 10 * io'.result - 5 <= series[i].value
                   /\ series[i].value < 10 * io'.result + 5
      ]_vars

\* Two archived samples of 0 W (a night): the all-time peak is 'N/A'.
C22_NightShowsNA ==
    /\ io.op = "peak" /\ io.soc = Null /\ io.skip = "N/A"
    /\ Len(historicalData.series[PvTopic]) = 2
    /\ \A i \in 1 .. 2 : historicalData.series[PvTopic][i].value = 0

(***************************************************************************)
(* C23: monitorPeakDischarge emits at most one alert in a discharge        *)
(* episode inside the peak window, whatever the spacing of the samples and *)
(* whatever notifications are still on their way: no alert for a sample    *)
(* less than 30 minutes into the episode (so none in an episode that       *)
(* recovers after 29 minutes), and by the first sample 31 minutes or more  *)
(* into the episode exactly one.                                           *)
(***************************************************************************)
C23_OneAlertPerEpisode ==
    [][ LET st      == peakDischargeState
            elapsed == now - st.dischargeStartTime
            alert   == io'.op = "battery" /\ io'.arg = "alert"
        IN  /\ alert =>
                 /\ st.isDischarging /\ ~st.alertSent
                 /\ elapsed >= PeakMinutes * 60
                 /\ peakDischargeState'.alertSent
            /\ st.isDischarging /\ peakDischargeState'.isDischarging =>
                 /\ peakDischargeState'.dischargeStartTime
                       = st.dischargeStartTime
                 /\ st.alertSent => peakDischargeState'.alertSent /\ ~alert
            /\ /\ io'.op = "battery" /\ io'.skip = "none"
               /\ io'.soc # NaN /\ io'.soc < 0 - DischargeBelow
               /\ st.isDischarging /\ elapsed >= (PeakMinutes + 1) * 60
               => /\ peakDischargeState'.alertSent
                  /\ alert <=> ~st.alertSent
      ]_vars

\* A sample 59 minutes into an episode whose alert went out at 30 minutes
\* and is still waiting for the mail service: no second alert.
C23_SecondSampleNoAlert ==
    /\ io.op = "battery" /\ io.arg = "none" /\ io.soc = 0 - DischargeBelow - 1
    /\ peakDischargeState.isDischarging /\ peakDischargeState.alertSent
    /\ peakDischargeState.dischargeStartTime = TickLen
    /\ peakDischargeState.lastAlertTime = TickLen + PeakMinutes * 60
    /\ now = TickLen + (2 * PeakMinutes - 1) * 60
    /\ peakPending = 1
    /\ alertHistory = << >>

(***************************************************************************)
(* C24: a numeric battery-power sample that is outside the peak window or  *)
(* not below -50 W leaves isDischarging = false, dischargeStartTime = null *)
(* and alertSent = false and sends no alert; the episode that the next     *)
(* discharging sample opens starts at that sample, and an alert is         *)
(* measured from there.                                                    *)
(***************************************************************************)
C24_EpisodeReset ==
    /\ [][ /\ io'.op = "battery" /\ io'.soc # NaN
           /\ io'.skip = "off-peak" \/ io'.soc >= 0 - DischargeBelow
           => /\ peakDischargeState' =
                   [ isDischarging |-> FALSE, dischargeStartTime |-> Null,
                     alertSent |-> FALSE,
                     lastAlertTime |-> peakDischargeState.lastAlertTime ]
              /\ io'.arg = "none" /\ io'.mail = "none"
              /\ peakPending' = peakPending /\ alertHistory' = alertHistory
         ]_vars
    /\ [][ ~peakDischargeState.isDischarging
           /\ peakDischargeState'.isDischarging
           => /\ peakDischargeState'.dischargeStartTime = now
              /\ ~peakDischargeState'.alertSent
              /\ io'.op = "battery" /\ io'.arg = "none" ]_vars
    /\ [][ io'.op = "battery" /\ io'.arg = "alert" =>
             now - peakDischargeState'.dischargeStartTime >= PeakMinutes * 60
         ]_vars

\* A first episode of 29 minutes ended in recovery; the second one, opened
\* at once, is 30 minutes less a second old and has had no alert.
C24_SecondEpisodeOwnClock ==
    /\ io.op = "battery" /\ io.arg = "none" /\ io.skip = "none"
    /\ io.soc = 0 - DischargeBelow - 1
    /\ peakDischargeState.isDischarging /\ ~peakDischargeState.alertSent
    /\ peakDischargeState.dischargeStartTime = TickLen + (PeakMinutes - 1) * 60
    /\ peakDischargeState.lastAlertTime = Null
    /\ now = peakDischargeState.dischargeStartTime + PeakMinutes * 60 - 1
    /\ alertHistory = << >> /\ peakPending = 0

(***************************************************************************)
(* C25: the duration gate of the peak-discharge alert is the configured    *)
(* alertSettings.peakDischargeAlert.durationMinutes: no alert goes out     *)
(* before the episode is that many minutes old, and a discharging sample   *)
(* inside the window a minute or more past it finds the alert sent or      *)
(* sends it.                                                               *)
(***************************************************************************)
C25_ConfiguredDuration ==
    [][ LET st      == peakDischargeState
            gate    == alertSettings.peakDischargeAlert.durationMinutes * 60
            elapsed == now - st.dischargeStartTime
        IN  /\ io'.op = "battery" /\ io'.arg = "alert" => elapsed >= gate
            /\ /\ io'.op = "battery" /\ io'.skip = "none"
               /\ io'.soc # NaN /\ io'.soc < 0 - DischargeBelow
               /\ st.isDischarging /\ elapsed >= gate + 60
               => peakDischargeState'.alertSent
      ]_vars

\* With 45 minutes configured the alert has gone out at 30 minutes.
C25_AlertBeforeConfigured ==
    /\ alertSettings.peakDischargeAlert.durationMinutes = 45
    /\ io.op = "battery" /\ io.arg = "alert"
    /\ peakDischargeState.alertSent
    /\ now - peakDischargeState.dischargeStartTime = PeakMinutes * 60
    /\ restarts = 0

(***************************************************************************)
(* C26: for every month and time of day isWithinPeakHours is true exactly  *)
(* inside the documented seasonal window: June to August 10:00-15:00,      *)
(* March to May and September to October 9:45-14:15, November to February  *)
(* 10:00-14:00 (the minute that ends a window may count either way).       *)
(***************************************************************************)
C26_DocumentedWindows ==
    [][ io'.op = "battery" =>
          LET month  == GetMonth(now)
              minute == MinuteOfDay(now)
              first  == IF month \in {2, 3, 4, 8, 9} THEN 9 * 60 + 45
                        ELSE 10 * 60
              last   == IF month \in {5, 6, 7} THEN 15 * 60
                        ELSE IF month \in {2, 3, 4, 8, 9} THEN 14 * 60 + 15
                        ELSE 14 * 60
              inside == io'.skip # "off-peak"
          IN  /\ first <= minute /\ minute < last => inside
              /\ minute < first \/ minute > last => ~inside
      ]_vars

\* 9:30 on a day of June: the sample opens a peak-hours discharge episode.
C26_JuneHalfPastNine ==
    /\ GetMonth(now) = 5 /\ MinuteOfDay(now) = 9 * 60 + 30
    /\ io.op = "battery" /\ io.skip = "none"
    /\ peakDischargeState.isDischarging
    /\ peakDischargeState.dischargeStartTime = now

\* The folders of a listing whose names start with backup_.
Backups(dir) == { dir[i] : i \in { j \in DOMAIN dir : IsBackup(dir[j]) } }

(***************************************************************************)
(* C27: after a backup run that completes, at most 30 folders named        *)
(* backup_* remain, the folder of this run is one of them, every folder    *)
(* that remains was a backup before the run or is the new one, no backup   *)
(* that was removed is more recent (by mtime) than one that remains, none  *)
(* is removed while fewer than 30 would remain, and the other folders of   *)
(* the directory are left alone.                                           *)
(***************************************************************************)
C27_ThirtyMostRecent ==
    [][ io'.op = "backup" /\ io'.skip = "none" =>
          LET kept    == Backups(disk'.dir)
              created == { e \in kept : e.stamp = now }
              earlier == { e \in Backups(disk.dir) : e.stamp # now }
              removed == earlier \ kept
          IN  /\ Cardinality(kept) <= KeepCount
              /\ Len(SelectSeq(disk'.dir, IsBackup)) = Cardinality(kept)
              /\ Cardinality(created) = 1
              /\ kept \subseteq earlier \cup created
              /\ \A r \in removed, k \in kept : r.mtime <= k.mtime
              /\ removed # {} => Cardinality(kept) = KeepCount
              /\ SelectSeq(disk'.dir, LAMBDA e : ~IsBackup(e))
                    = SelectSeq(disk.dir, LAMBDA e : ~IsBackup(e))
      ]_vars

\* A run beside 32 earlier backups and a before_restore_ folder has removed
\* the three oldest backups and left 30, its own among them.
C27_ThreeOldestRemoved ==
    /\ io.op = "backup" /\ io.skip = "none"
    /\ Cardinality(Backups(disk.dir)) = KeepCount
    /\ \E e \in Backups(disk.dir) : e.stamp = now
    /\ \A e \in Backups(disk.dir) : e.stamp > 3
    /\ \E i \in DOMAIN disk.dir : ~IsBackup(disk.dir[i])

(***************************************************************************)
(* C28: a restore run, completed or cut short at any of its calls, leaves  *)
(* the listed folders as they were and changes a current file only after   *)
(* every data, sensitive and SSL file that existed before the run has been *)
(* copied, with the content it had before the run, into one new            *)
(* before_restore_ folder; a file that did not exist is not in the folder. *)
(***************************************************************************)
C28_SavedBeforeOverwritten ==
    [][ io'.op = "restore" =>
          LET files   == { BackupFiles[i] : i \in DOMAIN BackupFiles }
              changed == { f \in files : CurrentFile(f)' # CurrentFile(f) }
              made    == Len(disk'.dir) - Len(disk.dir)
              folder  == disk'.dir[Len(disk'.dir)]
          IN  /\ made \in {0, 1}
              /\ SubSeq(disk'.dir, 1, Len(disk.dir)) = disk.dir
              /\ changed # {} => made = 1
              /\ made = 1 =>
                    /\ folder.prefix = "before_restore_"
                    /\ \A f \in files :
                          folder.files[f] \in {NoFile, CurrentFile(f)}
              /\ changed # {} =>
                    \A f \in files :
                       CurrentFile(f).exists => folder.files[f] = CurrentFile(f)
              /\ io'.skip = "none" =>
                    \A f \in files :
                       CurrentFile(f).exists => folder.files[f] = CurrentFile(f)
      ]_vars

\* A restore of an earlier backup has failed after it had put back
\* package.json and before it put back .env: the package.json it replaced
\* is in the before_restore_ folder of this run.
C28_FailedAfterFirstWrite ==
    /\ io.op = "restore" /\ io.skip = "failed"
    /\ CurrentFile("package.json") = [ exists |-> TRUE, version |-> 0 ]
    /\ CurrentFile(".env") = [ exists |-> TRUE, version |-> 1 ]
    /\ \E i \in DOMAIN disk.dir :
          /\ disk.dir[i].prefix = "before_restore_" /\ disk.dir[i].stamp = now
          /\ disk.dir[i].files["package.json"]
                = [ exists |-> TRUE, version |-> 1 ]
          /\ disk.dir[i].files["ssl/server.crt"].exists

(***************************************************************************)
(* C29: a message of an archived topic whose payload is not a number adds  *)
(* no point to the archive and leaves lastArchivedTime as it was, and its   *)
(* payload is what the cache then holds for the topic; a numeric message   *)
(* that follows a dropped one is archived as soon as the archive is empty  *)
(* or an interval has passed since its newest point.                       *)
(***************************************************************************)
C29_DroppedSampleKeepsWatermark ==
    [][ io'.op = "data" /\ io'.arg \in Archived =>
          LET topic  == io'.arg
              raw    == io'.soc
              series == historicalData.series[topic]
              due    == \/ series = << >>
                        \/ now - series[Len(series)].timestamp
                              >= ArchiveInterval
          IN  /\ IsNaN(ParseFloat(raw)) =>
                    /\ historicalData' = historicalData
                    /\ lastArchivedTime' = lastArchivedTime
                    /\ cachedData'[topic] = [ value |-> raw, timestamp |-> now ]
              /\ /\ ~IsNaN(ParseFloat(raw))
                 /\ IsNaN(ParseFloat(cachedData[topic].value))
                 /\ cachedData[topic] # NoEntry
                 /\ historicalData.isMap
                 /\ due
                 => /\ historicalData'.series[topic]
                          = Append(series, [ timestamp |-> now, day |-> today,
                                             value |-> raw ])
                    /\ lastArchivedTime'[topic] = now
      ]_vars

\* A PV message that is not a number has arrived a full interval after the
\* one archived point: the cache holds it, the archive and the mark do not.
C29_DueSampleDropped ==
    /\ io.op = "data" /\ io.arg = PvTopic /\ io.soc = Garbage
    /\ cachedData[PvTopic] = [ value |-> Garbage, timestamp |-> now ]
    /\ Len(historicalData.series[PvTopic]) = 1
    /\ historicalData.series[PvTopic][1].timestamp = now - ArchiveInterval
    /\ lastArchivedTime[PvTopic] = now - ArchiveInterval

(***************************************************************************)
(* C30: a message whose payload is not a number, on the day that the daily *)
(* statistics are already of, leaves the four baselines, the peak power of *)
(* the day and the peaks of the hours as they were; and after a numeric    *)
(* message of an energy counter the baseline of that counter is a number.  *)
(***************************************************************************)
C30_UnparseableDropped ==
    [][ io'.op = "data" /\ statsDate = today =>
          /\ IsNaN(ParseFloat(io'.soc)) => dailyStats' = dailyStats
          /\ ~IsNaN(ParseFloat(io'.soc)) =>
                /\ io'.arg = PvEnergyTopic
                      => ~IsNaN(dailyStats'.pvEnergyStart)
                /\ io'.arg = LoadEnergyTopic
                      => ~IsNaN(dailyStats'.loadEnergyStart)
                /\ io'.arg = BatteryInTopic
                      => ~IsNaN(dailyStats'.batteryEnergyInStart)
                /\ io'.arg = BatteryOutTopic
                      => ~IsNaN(dailyStats'.batteryEnergyOutStart)
      ]_vars

\* The PV energy counter has sent 10 on a day whose first PV energy message
\* was not a number: the baseline of the day is still NaN.
C30_BaselineStaysNaN ==
    /\ io.op = "data" /\ io.arg = PvEnergyTopic /\ io.soc = 10
    /\ statsDate = today
    /\ cachedData[PvEnergyTopic].value = 10
    /\ IsNaN(dailyStats.pvEnergyStart)

Baselines(ds) ==
    [ k \in EnergyTopics |->
        CASE k = PvEnergyTopic   -> ds.pvEnergyStart
          [] k = LoadEnergyTopic -> ds.loadEnergyStart
          [] k = BatteryInTopic  -> ds.batteryEnergyInStart
          [] k = BatteryOutTopic -> ds.batteryEnergyOutStart ]

\* A message of a counter whose baseline is null on the date of the
\* statistics sets the baseline to the value of the message.
SetByFirstSample ==
    [][ io'.op = "data" /\ io'.skip # "throw" /\ statsDate = today =>
          \A k \in EnergyTopics :
             io'.arg = k /\ Baselines(dailyStats)[k] = Null
                => Baselines(dailyStats')[k] = ParseFloat(io'.soc) ]_vars

\* A baseline that is set is left as it is by a message of the same date
\* and by a call of a getter.
KeptOnceSet ==
    [][ \/ io'.op = "data" /\ io'.skip # "throw" /\ statsDate = today
        \/ io'.op \in {"produced", "consumed"}
        => \A k \in EnergyTopics :
              Baselines(dailyStats)[k] # Null
                 => Baselines(dailyStats')[k] = Baselines(dailyStats)[k]
      ]_vars

\* A message on another date than that of the statistics leaves of them
\* what the message itself sets.
ResetOnNewDate ==
    [][ io'.op = "data" /\ io'.skip # "throw" /\ statsDate # today =>
          LET power == ParseFloat(io'.soc)
              isPv  == io'.arg = PvTopic
          IN  /\ statsDate' = today
              /\ \A k \in EnergyTopics :
                    Baselines(dailyStats')[k]
                       = IF io'.arg = k THEN power ELSE Null
              /\ dailyStats'.peakPower
                    = IF isPv /\ ~IsNaN(power) /\ power > 0 THEN power ELSE 0
              /\ \A hour \in 0 .. 23 :
                    dailyStats'.peakPowerHourly[hour]
                       = IF isPv /\ hour = GetHours(now) THEN power
                         ELSE Absent
      ]_vars

(***************************************************************************)
(* C32, as stated: a baseline is set at the first message of its counter   *)
(* on a date (by nothing else: a getter leaves every baseline as it is)    *)
(* and is kept by every later message and getter call of the date; a       *)
(* message on a new date clears the baselines, the peak power and the      *)
(* hourly peaks before it is applied.                                      *)
(***************************************************************************)
C32_SetAtFirstObservation ==
    /\ SetByFirstSample
    /\ KeptOnceSet
    /\ ResetOnNewDate
    /\ [][ io'.op \in {"produced", "consumed"} =>
             Baselines(dailyStats') = Baselines(dailyStats) ]_vars

(***************************************************************************)
(* C32, amended: a baseline that is null is set by the first message of    *)
(* its counter on the date or, before that, by the getter of its counter   *)
(* when the cache holds a value (getDailyEnergyProduced for PV energy,     *)
(* getDailyEnergyConsumed for load energy; a getter changes no other       *)
(* field); once set it is kept by every message and getter call of the     *)
(* date; a message on a new date clears the baselines, the peak power and  *)
(* the hourly peaks before it is applied.                                  *)
(***************************************************************************)
C32_SetOnceResetOnNewDate ==
    /\ SetByFirstSample
    /\ KeptOnceSet
    /\ ResetOnNewDate
    /\ [][ io'.op \in {"produced", "consumed"} =>
             LET own == IF io'.op = "produced" THEN PvEnergyTopic
                        ELSE LoadEnergyTopic
             IN  /\ \A k \in EnergyTopics \ {own} :
                       Baselines(dailyStats')[k] = Baselines(dailyStats)[k]
                 /\ Baselines(dailyStats')[own] # Baselines(dailyStats)[own]
                       => /\ Baselines(dailyStats)[own] = Null
                          /\ HasValue(cachedData[own].value)
                 /\ dailyStats'.peakPower = dailyStats.peakPower
                 /\ dailyStats'.peakPowerHourly = dailyStats.peakPowerHourly
       ]_vars

\* On the second date getDailyEnergyProduced has set the PV baseline to 8:
\* the 10 that the cache holds from the day before less the 2 kWh that the
\* two PV power points of the date add up to; no message has carried 8.
C32_BaselineSetByGetter ==
    /\ io.op = "produced"
    /\ today = 1 /\ statsDate = 1
    /\ cachedData[PvEnergyTopic].value = 10
    /\ dailyStats.pvEnergyStart = 8

(***************************************************************************)
(* C33: in every reachable state chargerState.lastAction is "ON", "OFF" or *)
(* null, and when it is not null chargerState.isOn is true exactly when    *)
(* lastAction is "ON".                                                     *)
(***************************************************************************)
C33_LastActionWellFormed ==
    /\ chargerState.lastAction \in {"ON", "OFF", "null"}
    /\ chargerState.lastAction # "null"
          => (chargerState.isOn <=> chargerState.lastAction = "ON")

\* The manual trigger has switched the charger on: lastAction is the action
\* of the request body, "on".
C33_ManualWritesLowerCase ==
    /\ chargerState.isOn
    /\ chargerState.lastAction = "on"
    /\ chargerState.lastActionReason = "Manual test"
    /\ manual.pc # "idle"

(***************************************************************************)
(* C34: the processing of a message starts only when the handler of every  *)
(* earlier message has finished, its awaited outbound calls included: a    *)
(* SOC or temperature message is taken in only while no handler is         *)
(* suspended.                                                              *)
(***************************************************************************)
C34_HandlersSerialized ==
    [][ \/ io'.op = "message"
        \/ cachedData'[TempTopic] # cachedData[TempTopic]
        => Unfinished = {} ]_vars

\* The second SOC message has been archived, counted and handed to
\* checkBatteryAlerts while the handler of the first still waits for the
\* answer of the webhook.
C34_SecondStartsDuringFetch ==
    /\ io.op = "message"
    /\ delivered = 2
    /\ handlers[1].pc = "await_fetch"
    /\ cur = 2 /\ handlers[2].pc = "alerts"

\* In this step the awaited call of a handler at one of the places pcs (or
\* of the manual trigger) returns.
Returns(pcs) ==
    \/ \E h \in Slots : handlers[h].pc \in pcs /\ handlers'[h].pc \notin pcs
    \/ manual.pc \in pcs /\ manual'.pc \notin pcs

(***************************************************************************)
(* C35: a state transition is committed only when the result of its        *)
(* outbound call is known: chargerState changes only in a step in which    *)
(* the webhook call returns, and alertState.belowThreshold and             *)
(* alertHistory change only in a step in which the notification call       *)
(* returns.                                                                *)
(***************************************************************************)
C35_CommitAfterCall ==
    [][ /\ chargerState' # chargerState => Returns({"await_fetch"})
        /\ \/ alertState'.belowThreshold # alertState.belowThreshold
           \/ alertHistory' # alertHistory
           => Returns({"await_mail_low", "await_mail_rec", "await_mail_cc",
                       "await_mail"})
      ]_vars

\* The low alert is in alertState and in alertHistory while the handler
\* still waits for sendEmailAlert to return.
C35_CommittedBeforeMail ==
    /\ io.op = "alerts-low"
    /\ \E h \in Slots : handlers[h].pc = "await_mail_low"
    /\ alertState.belowThreshold
    /\ alertHistory # << >> /\ alertHistory[1].type = "low"

(***************************************************************************)
(* C36: while the handler of a SOC message waits for the webhook or for a  *)
(* notification, a PV power message is taken in as soon as the thread is   *)
(* free, and one that arrives then is written to the cache and, when it is *)
(* a number and the archive of its topic is empty or an interval old, to   *)
(* the archive.                                                            *)
(***************************************************************************)
C36_IngestionNeverWaits ==
    /\ [](cur = 0 /\ Unfinished # {} => ENABLED MqttData(PvTopic, 100))
    /\ [][ io'.op = "data" /\ Unfinished # {} =>
             LET topic  == io'.arg
                 raw    == io'.soc
                 series == historicalData.series[topic]
             IN  /\ io'.skip # "throw"
                 /\ Unfinished' = Unfinished
                 /\ cachedData'[topic] = [ value |-> raw, timestamp |-> now ]
                 /\ /\ ~IsNaN(ParseFloat(raw))
                    /\ \/ series = << >>
                       \/ now - series[Len(series)].timestamp >= ArchiveInterval
                    => historicalData'.series[topic]
                          = Append(series, [ timestamp |-> now, day |-> today,
                                             value |-> raw ])
       ]_vars

\* A PV power message that arrived a minute after the control loop called
\* IFTTT is in the cache and in the archive; the webhook has not answered.
C36_ArchivedDuringFetch ==
    /\ io.op = "data" /\ io.arg = PvTopic /\ io.soc = 100
    /\ \E h \in Slots :
          handlers[h].pc = "await_fetch" /\ handlers[h].t = now - ArchiveInterval
    /\ cachedData[PvTopic] = [ value |-> 100, timestamp |-> now ]
    /\ historicalData.series[PvTopic] # << >>
    /\ historicalData.series[PvTopic][Len(historicalData.series[PvTopic])].timestamp
          = now

(***************************************************************************)
(* SpecSummary: the 8 PM timer over two days, started half an hour before  *)
(* 8 PM, at 8 PM sharp and one second after, with and without a SendGrid   *)
(* key, while alerts are switched off and on and the process restarts.     *)
(***************************************************************************)
SummaryStarts == {EightPM - 1800, EightPM, EightPM + 1}
SummaryWaits  == {1800, 6 * 3600}
SummarySwitches ==
    { b \in AlertBodies : /\ b.enabled # "keep" /\ ~b.sendgridApiKey
                          /\ b.lowThreshold = Absent
                          /\ b.highThreshold = Absent }

InitSummary ==
    /\ \E e \in Environments : Started(e, << >>)
    /\ now \in SummaryStarts
    /\ horizon = now + 2 * 86400
    /\ disk = NoBackups
    /\ summaryTimer = InitSummaryTimer(now)
    /\ alertState = InitAlertState
    /\ alertHistory = << >>
    /\ cachedData = [ k \in Topics |-> NoEntry ]
    /\ historicalData = InitHistoricalData
    /\ historyFile = NoFile
    /\ dailyStats = InitDailyStats
    /\ settingsFile = NoFile
    /\ alertSettings = InitAlertSettings(env)

NextSummary ==
    \/ \E i \in 1 .. 2 : SummaryTimer(i)
    \/ \E outcome \in {"ok", "fail"} : SummaryTimerDone(outcome)
    \/ \E d \in SummaryWaits : TimerElapse(d)
    \/ \E body \in SummarySwitches : PostSettings(body)
    \/ Restart(FALSE)

SpecSummary == InitSummary /\ [][NextSummary]_vars

\* The delay of the timer that a step arms: the step leaves a timer armed
\* that was not armed before it.
Rearmed ==
    /\ summaryTimer'.armed # << >>
    /\ summaryTimer'.armed # summaryTimer.armed
    /\ Len(summaryTimer'.armed) >= Len(summaryTimer.armed)
ArmedDelay == summaryTimer'.armed[Len(summaryTimer'.armed)] - now'

(***************************************************************************)
(* C37: the daily summary reschedules itself.  At every moment exactly one *)
(* summary timer is armed or one callback is awaiting its send, so after   *)
(* each firing exactly one new timer is armed whether the send succeeded,  *)
(* failed or was disabled; every delay computed is greater than 0 and at   *)
(* most 24 hours; and the timer fires at most once per calendar day.       *)
(***************************************************************************)
C37_ReschedulesOncePerDay ==
    /\ [](Len(summaryTimer.armed) + summaryTimer.sending = 1)
    /\ [][Rearmed => ArmedDelay \in 1 .. 86400]_vars
    /\ [][io'.op = "summary-timer" /\ summaryTimer'.fired = now' \div 86400
              /\ summaryTimer' # summaryTimer
            => \/ summaryTimer.fired = Null
               \/ summaryTimer.fired < now' \div 86400]_vars

\* Fired at 8 PM sharp with alerts disabled: re-armed for 24 hours later.
C37_RearmedWhenDisabled ==
    /\ io.op = "summary-timer"
    /\ io.arg = "off"
    /\ ~alertSettings.enabled
    /\ summaryTimer.armed = <<now + 86400>>

\* The handlers of the control loop whose webhook call has not returned.
InFlight == { h \in Slots : handlers[h].pc = "await_fetch" }

(***************************************************************************)
(* C38: under every interleaving of SOC message handlers the control loop  *)
(* has at most one webhook call in flight, and it never sends an event     *)
(* while a call with the same event is still pending.                      *)
(***************************************************************************)
C38_OneTriggerInFlight ==
    /\ [](Cardinality(InFlight) <= 1)
    /\ [][io'.op = "control" /\ io'.trigger \in Events
            => \A h \in InFlight : handlers[h].ev # io'.trigger]_vars

\* battery_low has been sent for the second sample while the call for the
\* first is pending: chargerState still says off.
C38_TwoLowTriggersPending ==
    /\ io.op = "control"
    /\ io.trigger = "battery_low"
    /\ InFlight = {1, 2}
    /\ handlers[1].ev = "battery_low" /\ handlers[2].ev = "battery_low"
    /\ ~chargerState.isOn

(***************************************************************************)
(* C39: one SOC sample causes at most one battery-alert transition,        *)
(* whatever thresholds the settings update has accepted: the alerts        *)
(* emitted never outnumber the samples handed to checkBatteryAlerts.       *)
(***************************************************************************)
C39_OneAlertPerSample == Len(alertLog) <= delivered

\* The only sample so far lies below a low threshold that was set above
\* the high threshold: its call has emitted 'low' and then 'recovered'.
C39_LowAndRecoveredAtOnce ==
    /\ delivered = 1
    /\ alertSettings.lowThreshold > alertSettings.highThreshold
    /\ Len(alertLog) = 2
    /\ alertLog[1].type = "low" /\ alertLog[2].type = "recovered"
    /\ alertLog[1].value = alertLog[2].value
    /\ io.op = "alerts-recovered"

(***************************************************************************)
(* C40: when the cache holds no numeric battery temperature (no reading    *)
(* yet, or a last reading that is not a number) at the moment              *)
(* controlBatteryCharger evaluates a numeric sample with control ready,    *)
(* the interlock does not veto: the call returns for the cooldown, or      *)
(* sends the trigger the thresholds ask for, or finds nothing to do.       *)
(***************************************************************************)
C40_NoReadingNoVeto ==
    [][ \A h \in Slots :
          (/\ Evaluating(h) /\ ~TempIsNumber /\ CcConfigured
           /\ ~IsNaN(handlers[h].soc))
            => /\ io'.op = "control"
               /\ io'.skip # "temp"
               /\ IF InCooldown(now, chargerState.lastActionTime)
                  THEN io'.skip = "cooldown" /\ io'.trigger = "none"
                  ELSE IF ShouldTurnOn(handlers[h].soc, chargerState.isOn,
                                       CcSettings.lowThreshold)
                  THEN io'.trigger = "battery_low"
                  ELSE IF ShouldTurnOff(handlers[h].soc, chargerState.isOn,
                                        CcSettings.highThreshold)
                  THEN io'.trigger = "battery_charged"
                  ELSE io'.skip = "idle" /\ io'.trigger = "none" ]_vars

\* battery_low has been sent while the last temperature message in the
\* cache is one that parseFloat turns into NaN.
C40_TriggeredOnUnreadableTemp ==
    /\ io.op = "control"
    /\ io.trigger = "battery_low"
    /\ CachedTemp = Garbage
    /\ \E h \in Slots : handlers[h].pc = "await_fetch" /\ handlers[h].t = now

====
